---- MODULE Spec2Model ----
(***************************************************************************)
(* Venue refresh and geo-cache subsystem of cs-server: the search/poll     *)
(* discovery run of VenuesRefresherService, its post-upsert live-forecast  *)
(* step, RedisVenueDAO and the Redis commands GeoRedisClient issues.       *)
(***************************************************************************)
EXTENDS Integers, Sequences, FiniteSets, TLC

(***************************************************************************)
(* Bounds of the model.                                                    *)
(***************************************************************************)
NumSeeds == 2
MaxVenues == 2

(***************************************************************************)
(* Program constants.                                                      *)
(***************************************************************************)
BEST_TIME_SEARCH_POLLING_WAIT_SECONDS == 15
maxRetries == 5

VENUES_GEO_KEY_V1 == "venues_geo_v1"
VENUES_GEO_PLACE_MEMBER_FORMAT_V1 == "venues_geo_place_v1"
LIVE_FORECAST_KEY_FORMAT == "live_forecast_v1"

(***************************************************************************)
(* Values the provider can send.                                           *)
(***************************************************************************)
VenueIDs == {"", "1", "2"}
VenueNames == {"X", "Y"}
Lats == {0, 1}
Lons == {0}
Busyness == {10, 20}

Venue == [venue_id : VenueIDs, venue_name : VenueNames, venue_lat : Lats, venue_lon : Lons]

\* The records a search of the provider can return: every ID/name pair, the
\* coordinates following the name so that one ID can come back at two places.
ProviderVenues ==
    { v \in Venue : v.venue_lat = (IF v.venue_name = "Y" THEN 1 ELSE 0) }

\* A record a provider may attach to a progress response of an unfinished job.
EarlyVenue == [venue_id |-> "2", venue_name |-> "Y", venue_lat |-> 1, venue_lon |-> 0]

\* A progress response: job_finished and the length of its venue list. The venues
\* themselves are drawn from ProviderVenues as the dedup loop ranges over the list;
\* the response of an unfinished job carries no venue or one (EarlyVenue).
SearchProgressResponse ==
    [JobFinished : {TRUE}, VenuesN : 0..MaxVenues]
        \cup
    [JobFinished : {FALSE}, VenuesN : {0, 1}]

ResponseVenues(r) == IF r.JobFinished THEN ProviderVenues ELSE {EarlyVenue}

NoResp == [JobFinished |-> FALSE, VenuesN |-> 0, isNil |-> TRUE]

LiveForecastResponse ==
    [Status : {"OK", "Error"}, VenueLiveBusyness : Busyness,
     VenueLiveBusynessAvailable : BOOLEAN, VenueID : VenueIDs]

\* What the provider can answer to a live-forecast request for vid: an entry to
\* cache, of either busyness, that echoes vid or another venue ID, or one of the
\* three kinds of entry that are not to be cached.
OtherID(vid) == IF vid = "1" THEN "2" ELSE "1"
ProviderLive(vid) ==
    { lf \in LiveForecastResponse :
        \/ lf.Status = "OK" /\ lf.VenueLiveBusynessAvailable /\ lf.VenueID \in {vid, OtherID(vid)}
        \/ ~(lf.Status = "OK" /\ lf.VenueLiveBusynessAvailable)
              /\ lf.VenueID = vid /\ lf.VenueLiveBusyness = 10 }

NoLF == [isNil |-> TRUE]

(***************************************************************************)
(* Store values and keys.                                                  *)
(***************************************************************************)
RedisNil == [tag |-> "nil"]
NoPos == [tag |-> "nopos"]

Marshal(x) == [tag |-> "json", body |-> x]
Unmarshal(s) == s.body
IsJSON(s) == s.tag = "json"

Sprintf(format, id) == <<format, id>>
VenueKey(id) == Sprintf(VENUES_GEO_PLACE_MEMBER_FORMAT_V1, id)
LiveKey(id) == Sprintf(LIVE_FORECAST_KEY_FORMAT, id)

MemberKeys == { VenueKey(id) : id \in VenueIDs }
LiveKeys == { LiveKey(id) : id \in VenueIDs }
StoreKeys == MemberKeys \cup LiveKeys

GeoLocation(lat, lon) == [tag |-> "pos", Latitude |-> lat, Longitude |-> lon]

\* Redis commands on the key space (kv) and on the geo set venues_geo_v1 (geo).
RedisSet(store, key, value) == [store EXCEPT ![key] = value]
RedisDel(store, key) == [store EXCEPT ![key] = RedisNil]
RedisGeoAdd(index, member, lat, lon) == [index EXCEPT ![member] = GeoLocation(lat, lon)]

\* GEORADIUS: the members of the geo set within radius of (lat, lon). Distances
\* are taken on the grid of the model's coordinates, in the unit of the radius.
Abs(n) == IF n < 0 THEN -n ELSE n
Distance(pos, lat, lon) == Abs(pos.Latitude - lat) + Abs(pos.Longitude - lon)
RedisGeoRadius(index, lat, lon, radius) ==
    { m \in DOMAIN index : index[m].tag = "pos" /\ Distance(index[m], lat, lon) <= radius }

\* The orders in which a set can be listed, as GEORADIUS and KEYS give their
\* results in an order the caller does not choose.
Listings(S) == { ids \in UNION { [1..n -> S] : n \in 0..Cardinality(S) } :
                    /\ Len(ids) = Cardinality(S)
                    /\ \A a, b \in 1..Len(ids) : a # b => ids[a] # ids[b] }

\* What can go wrong on the store while it is read: the radius query, and the GET
\* of some members.
NoFailure == [radius |-> FALSE, gets |-> {}]

\* The loop of GetLocationsWithinRadius over the members found, from the i-th on:
\* a member whose GET fails (a missing key is such a failure) is skipped, the
\* payload of any other is appended.
RECURSIVE readMembers(_, _, _, _)
readMembers(results, store, fail, i) ==
    IF i > Len(results)
    THEN [err |-> FALSE, objects |-> <<>>]
    ELSE LET rest == readMembers(results, store, fail, i + 1)
         IN IF results[i] \in fail.gets \/ store[results[i]] = RedisNil
            THEN rest
            ELSE [err |-> FALSE, objects |-> <<store[results[i]]>> \o rest.objects]

\* GetLocationsWithinRadius: the payloads of the members in the radius, in the
\* order the radius query lists them; an error of the radius query is returned.
GetLocationsWithinRadius(index, store, lat, lon, radius, fail, order) ==
    IF fail.radius
    THEN [err |-> TRUE, objects |-> <<>>]
    ELSE readMembers(order, store, fail, 1)

\* The loop of GetNearbyVenues over the payloads, from the i-th on: the first one
\* that is not a venue's JSON fails the call, and no venue is returned.
RECURSIVE unmarshalVenues(_, _)
\* A loop that leaves out a payload it cannot deserialize.
unmarshalVenues_SkipBad(objects, i) ==
    [err |-> FALSE,
     venues |-> LET good == SelectSeq(SubSeq(objects, i, Len(objects)), IsJSON)
                IN [j \in 1..Len(good) |-> Unmarshal(good[j])]]
unmarshalVenues(objects, i) ==
    IF i > Len(objects)
    THEN [err |-> FALSE, venues |-> <<>>]
    ELSE IF ~IsJSON(objects[i])
         THEN [err |-> TRUE, venues |-> <<>>]
         ELSE LET rest == unmarshalVenues(objects, i + 1)
              IN IF rest.err
                 THEN rest
                 ELSE [err |-> FALSE, venues |-> <<Unmarshal(objects[i])>> \o rest.venues]

\* GetNearbyVenues: the venues of the payloads found; an error of the store or of
\* a deserialization is the error of the call.
GetNearbyVenues(index, store, lat, lon, radius, fail, order) ==
    LET found == GetLocationsWithinRadius(index, store, lat, lon, radius, fail, order)
    IN IF found.err
       THEN [err |-> TRUE, venues |-> <<>>]
       ELSE unmarshalVenues(found.objects, 1)

\* The elements of a sequence.
Range(f) == { f[i] : i \in DOMAIN f }

(***************************************************************************)
(* Decisions of the refresher, as the code takes them.                     *)
(***************************************************************************)
\* A backoff that does not grow with the attempt number.
waitSeconds_Constant(attemptNumber) == BEST_TIME_SEARCH_POLLING_WAIT_SECONDS + 0 * attemptNumber
waitSeconds(attemptNumber) == BEST_TIME_SEARCH_POLLING_WAIT_SECONDS * attemptNumber

\* processJobHandles, dedup loop: which check, if any, skips the venue.
\* A dedup that looks at the ID only.
dupReason_IdOnly(v, seenIDs, seenNames) ==
    IF v.venue_id \in seenIDs THEN "id" ELSE IF FALSE /\ v.venue_name \in seenNames THEN "name" ELSE "none"
\* A dedup that looks at the name first.
dupReason_NameFirst(v, seenIDs, seenNames) ==
    IF v.venue_name \in seenNames THEN "name" ELSE IF v.venue_id \in seenIDs THEN "id" ELSE "none"
dupReason(v, seenIDs, seenNames) ==
    IF v.venue_id \in seenIDs THEN "id"
    ELSE IF v.venue_name \in seenNames THEN "name"
    ELSE "none"

\* processJobHandles: the handle is skipped after the poll loop.
handleSkipped(err, progResp) ==
    err \/ "isNil" \in DOMAIN progResp \/ ~progResp.JobFinished

\* fetchAndCacheLiveForecasts: the fetched entry is deleted, not cached.
\* A caching rule that looks at the status only.
staleLive_StatusOnly(lf) == lf.Status # "OK" \/ (FALSE /\ ~lf.VenueLiveBusynessAvailable)
staleLive(lf) == lf.Status # "OK" \/ ~lf.VenueLiveBusynessAvailable

\* SetLiveForecast: the key the entry is stored under.
setLiveForecastKey(f) == LiveKey(f.VenueID)

\* DeleteLiveForecast: the key that is deleted.
\* A delete of the venue's payload key.
deleteLiveForecastKey_Member(venueID) == VenueKey(venueID)
deleteLiveForecastKey(venueID) == LiveKey(venueID)

defaultLocations == [n \in 1..NumSeeds |-> n]

\* The job ID the provider gives a search it starts: the searches of a run are
\* numbered as they start.
JobID(handles) == Len(handles) + 1

(***************************************************************************)
(* State: the Redis key space (kv) and geo set (geo), the discovery run    *)
(* (d), the batches of fetchAndCacheLiveForecasts (lw), and a record of    *)
(* the calls the run has made (log) and of the live-forecast fetches and   *)
(* cache writes (live).                                                    *)
(***************************************************************************)
VARIABLES kv, geo, d, lw, log, live

vars == <<kv, geo, d, lw, log, live>>

Workers == {"postUpsert", "refreshAll", "refreshCached"}

NoProc == [isNil |-> TRUE]
NoVenue == [isNil |-> TRUE]

\* No call of the DAO has been made: no UpsertVenue, no GetNearbyVenues, and no
\* venue is known to have been stored under any ID.
NoUpsert == [isNil |-> TRUE]
NoRead == [isNil |-> TRUE]
NoKnown == [id \in VenueIDs \ {""} |-> NoVenue]
NoGet == [isNil |-> TRUE]
NoResponse == [isNil |-> TRUE]

\* The dedup of processJobHandles before its first record.
NoSearchFlow == [seenIDs |-> {}, seenNames |-> {}, uniqueIDs |-> <<>>, upserts |-> <<>>, allKeyed |-> TRUE]

EmptyLog ==
    [starts |-> <<>>, waited |-> FALSE, initialWait |-> <<>>,
     polls |-> <<>>, sleeps |-> <<>>, lastPoll |-> "none",
     polled |-> {}, abandoned |-> {}, failed |-> {}, finished |-> {},
     upserts |-> <<>>, upsertRes |-> <<>>, upsertAfter |-> {},
     lastProc |-> NoProc, procIDs |-> {}, procNames |-> {}, notFirst |-> FALSE,
     liveCalls |-> <<>>, liveErrs |-> {}, lastLive |-> "none", upsertErr |-> FALSE, searchFlow |-> NoSearchFlow,
     lastUpsert |-> NoUpsert, lastRead |-> NoRead, known |-> NoKnown, lastGet |-> NoGet, lastResponse |-> NoResponse,
     storeBefore |-> <<>>]

Idle ==
    [pc |-> "idle", entry |-> "none", waitBeforePolling |-> FALSE, loc |-> 1,
     handles |-> <<>>, h |-> 1, i |-> 0, err |-> FALSE, progResp |-> NoResp,
     k |-> 1, v |-> NoVenue, seenIDs |-> {}, seenNames |-> {}, uniqueIDs |-> <<>>,
     ids |-> <<>>, ret |-> "none", fetchAndCacheLive |-> FALSE, resp |-> NoResp]

\* No fetch of a live forecast has been made for any ID, no cache write either.
NoStep == [isNil |-> TRUE]
LiveIDs == VenueIDs \ {""}
NoLive == [lastFetch |-> [id \in LiveIDs |-> "none"], lastStep |-> NoStep]

IdleBatch == [pc |-> "idle", ids |-> <<>>, lv |-> 1, lf |-> NoLF, ret |-> "none"]

Init ==
    /\ kv = [key \in StoreKeys |-> RedisNil]
    /\ geo = [m \in MemberKeys |-> NoPos]
    /\ d = Idle
    /\ lw = [w \in Workers |-> IdleBatch]
    /\ log = EmptyLog
    /\ live = NoLive

\* fetchAndCacheLiveForecasts(ids) is entered.
startBatch(ids) ==
    IF Len(ids) = 0
    THEN [IdleBatch EXCEPT !.pc = "done", !.ids = ids]
    ELSE [IdleBatch EXCEPT !.pc = "fetch", !.ids = ids]

\* RefreshVenuesData(waitBeforePolling) or RefreshVenueCatalog(waitBeforePolling) is called.
StartRun ==
    /\ d.pc = "idle"
    /\ \E entry \in {"RefreshVenuesData", "RefreshVenueCatalog"}, w \in BOOLEAN :
          d' = [Idle EXCEPT !.pc = "kickoff", !.entry = entry, !.waitBeforePolling = w]
    /\ log' = EmptyLog
    /\ UNCHANGED <<kv, geo, lw, live>>

\* collectJobHandles: one GetVenuesNearby per location; a failure drops the seed.
StartSearch ==
    /\ d.pc = "kickoff"
    /\ d.loc <= Len(defaultLocations)
    /\ \E ok \in BOOLEAN :
          /\ d' = [d EXCEPT !.loc = d.loc + 1,
                            !.handles = IF ok THEN Append(d.handles, JobID(d.handles))
                                        ELSE d.handles]
          /\ log' = [log EXCEPT !.starts = Append(log.starts, [loc |-> d.loc, ok |-> ok])]
    /\ UNCHANGED <<kv, geo, lw, live>>

\* RefreshVenuesData / RefreshVenueCatalog after collectJobHandles: return on no
\* handle, else the optional initial wait.
\* A run that goes on to polling whatever the number of handles.
afterCollect_NoEmptyCheck(dd) == [dd EXCEPT !.pc = "poll", !.waitBeforePolling = FALSE]
afterCollect(dd) ==
    IF Len(dd.handles) = 0
    THEN [dd EXCEPT !.pc = "done", !.ret = "nil", !.waitBeforePolling = FALSE]
    ELSE [dd EXCEPT !.pc = "poll", !.waitBeforePolling = FALSE]

\* RefreshVenuesData / RefreshVenueCatalog, step 2: the sleeps before the first poll.
\* A run that sleeps before the first poll whatever the flag says.
initialWaits_Always(waitBeforePolling) == <<waitSeconds(1)>>
initialWaits(waitBeforePolling) ==
    IF waitBeforePolling THEN <<waitSeconds(1)>> ELSE <<>>

AfterKickoff ==
    /\ d.pc = "kickoff"
    /\ d.loc > Len(defaultLocations)
    /\ d' = afterCollect(d)
    /\ log' = IF d'.pc = "poll" /\ initialWaits(d.waitBeforePolling) # <<>>
              THEN [log EXCEPT !.waited = TRUE,
                               !.initialWait = log.initialWait \o initialWaits(d.waitBeforePolling)]
              ELSE log
    /\ UNCHANGED <<kv, geo, lw, live>>

\* The run after the poll/dedup loop has left handle dd.h: the next handle, or
\* processJobHandles returns uniqueIDs and the caller goes on.
nextHandle(dd) ==
    IF dd.h < Len(dd.handles)
    THEN [dd EXCEPT !.pc = "poll", !.h = dd.h + 1, !.i = 0, !.err = FALSE,
                    !.progResp = NoResp, !.k = 1]
    ELSE LET returned == [Idle EXCEPT !.entry = dd.entry,
                                      !.loc = dd.loc, !.handles = dd.handles,
                                      !.ids = dd.uniqueIDs]
         IN IF dd.entry = "RefreshVenuesData" /\ Len(dd.uniqueIDs) > 0
            THEN [returned EXCEPT !.pc = "live"]
            ELSE [returned EXCEPT !.pc = "done", !.ret = "nil"]

\* RefreshVenuesData step 4: the batch of the unique IDs starts when the run gets there.
handOver(dd, batches) ==
    IF dd.pc = "live"
    THEN [batches EXCEPT !["postUpsert"] = startBatch(dd.ids)]
    ELSE batches

\* The record of the polls and sleeps of the handle being polled.
pollLog(res) ==
    [log EXCEPT !.polls = IF d.i = 0 THEN <<res>> ELSE Append(log.polls, res),
                !.sleeps = IF d.i = 0 THEN <<>> ELSE log.sleeps,
                !.lastPoll = res,
                !.polled = log.polled \cup {d.h},
                !.starts = <<>>,
                !.waited = FALSE,
                !.initialWait = <<>>,
                !.lastProc = NoProc]

\* processJobHandles after the poll loop of a handle: skip it, or dedup its venues.
afterPollLoop(dd) ==
    IF handleSkipped(dd.err, dd.progResp) \/ dd.progResp.VenuesN = 0
    THEN nextHandle(dd)
    ELSE [dd EXCEPT !.pc = "dedup", !.k = 1]

\* The poll loop after an unfinished poll and its sleep: the next attempt, or the loop ends.
\* A poll loop that leaves a job that is not finished for the next handle.
afterSleep_NextHandle(dd) ==
    IF dd.h < Len(dd.handles) THEN nextHandle(dd) ELSE afterPollLoop(dd)
\* A poll loop without a limit of attempts.
afterSleep_NoLimit(dd) == [dd EXCEPT !.i = 0]
\* A poll loop that makes one attempt more.
afterSleep_OneMore(dd) ==
    IF dd.i <= maxRetries THEN dd ELSE afterPollLoop(dd)
afterSleep(dd) ==
    IF dd.i < maxRetries THEN dd ELSE afterPollLoop(dd)

\* The poll loop after GetVenueSearchProgress has returned an error: break.
\* A poll loop that takes an error for an unfinished job and tries again.
afterPollError_Retry(dd) ==
    IF dd.i + 1 < maxRetries THEN [dd EXCEPT !.i = @ + 1, !.err = FALSE] ELSE afterPollLoop(dd)
afterPollError(dd) == afterPollLoop(dd)

\* processJobHandles, one iteration of the poll loop: GetVenueSearchProgress, then
\* break on an error or a finished job, else waitBeforePolling(i + 1).
Poll ==
    /\ d.pc = "poll"
    /\ d.h <= Len(d.handles)
    /\ \/ /\ log' = [pollLog("error") EXCEPT !.failed = log.failed \cup {d.h}]
          /\ d' = afterPollError([d EXCEPT !.err = TRUE, !.progResp = NoResp])
       \/ \E r \in SearchProgressResponse :
          /\ r.JobFinished
          /\ log' = [pollLog("finished") EXCEPT !.finished = log.finished \cup {d.h}]
          /\ d' = afterPollLoop([d EXCEPT !.progResp = r])
       \/ \E r \in SearchProgressResponse :
          /\ ~r.JobFinished
          /\ log' = [pollLog("unfinished") EXCEPT
                        !.sleeps = Append(@, waitSeconds(d.i + 1)),
                        !.abandoned = IF Len(log.polls) = 4 /\ d.i # 0
                                      THEN @ \cup {d.h} ELSE @]
          /\ d' = afterSleep([d EXCEPT !.i = d.i + 1, !.progResp = r])
    /\ lw' = handOver(d', lw)
    /\ UNCHANGED <<kv, geo, live>>

\* The dedup loop after venue dd.k.
nextVenue(dd) ==
    IF dd.k < dd.progResp.VenuesN
    THEN [dd EXCEPT !.pc = "dedup", !.k = dd.k + 1]
    ELSE nextHandle(dd)

\* The record of one venue of the dedup loop.
procLog(v, why) ==
    [log EXCEPT !.lastProc = [v |-> v, why |-> why, h |-> d.h, k |-> d.k,
                              n |-> IF d.pc = "fdedup" THEN d.resp.VenuesN
                                    ELSE d.progResp.VenuesN],
                !.polls = <<>>,
                !.sleeps = <<>>,
                !.procIDs = @ \cup {v.venue_id},
                !.procNames = @ \cup {v.venue_name},
                !.notFirst = @ \/ (/\ why = "none"
                                   /\ \/ v.venue_id # "" /\ v.venue_id \in log.procIDs
                                      \/ v.venue_name # "" /\ v.venue_name \in log.procNames)]

\* processJobHandles, dedup loop: what a skip does to the dedup state: nothing,
\* the loop continues before anything is marked as seen.
\* A dedup that marks the ID of a venue it skips as seen.
afterSkip_MarkID(dd, v) == [dd EXCEPT !.seenIDs = @ \cup {v.venue_id}]
afterSkip(dd, v) == dd

\* processJobHandles, dedup loop: a duplicate is skipped.
DedupSkip ==
    /\ d.pc = "dedup"
    /\ \E v \in ResponseVenues(d.progResp) :
          LET why == dupReason(v, d.seenIDs, d.seenNames)
          IN /\ why # "none"
             /\ log' = procLog(v, why)
             /\ d' = nextVenue(afterSkip(d, v))
    /\ lw' = handOver(d', lw)
    /\ UNCHANGED <<kv, geo, live>>

\* UpsertVenue: the member key and the arguments of AddLocationWithJSON.
upsertMember(v) == VenueKey(v.venue_id)

\* AddLocationWithJSON: the GEOADD of the member.
\* A GEOADD with latitude and longitude exchanged.
addLocationGeoAdd_Swapped(index, memberKey, lat, lon) == RedisGeoAdd(index, memberKey, lon, lat)
addLocationGeoAdd(index, memberKey, lat, lon) == RedisGeoAdd(index, memberKey, lat, lon)

\* AddLocationWithJSON: the SET of the serialized data under the member key.
\* A SET that keeps the payload a key already has (SET NX).
addLocationSet_IfAbsent(store, memberKey, data) ==
    IF store[memberKey] = RedisNil THEN RedisSet(store, memberKey, Marshal(data)) ELSE store
addLocationSet(store, memberKey, data) == RedisSet(store, memberKey, Marshal(data))

\* A dedup loop that ends at the first UpsertVenue error.
afterUpsertError_Break(dd) == nextHandle(dd)

\* processJobHandles: an UpsertVenue error is logged, the loop continues.
afterUpsertError(dd) == nextVenue(dd)

\* processJobHandles, dedup loop: the venue is accepted and UpsertVenue is called;
\* AddLocationWithJSON issues its GEOADD, which succeeds or fails.
DedupAccept ==
    /\ d.pc = "dedup"
    /\ \E v \in ResponseVenues(d.progResp) :
       LET dd == [d EXCEPT !.seenIDs = d.seenIDs \cup {v.venue_id},
                           !.seenNames = d.seenNames \cup {v.venue_name},
                           !.uniqueIDs = Append(d.uniqueIDs, v.venue_id),
                           !.v = v]
           called == [procLog(v, "none") EXCEPT
                         !.upserts = Append(@, v),
                         !.upsertAfter = @ \cup {log.lastPoll}]
       IN /\ dupReason(v, d.seenIDs, d.seenNames) = "none"
          /\ \/ /\ geo' = addLocationGeoAdd(geo, upsertMember(v), v.venue_lat, v.venue_lon)
                /\ d' = [dd EXCEPT !.pc = "upsert_set"]
                /\ log' = called
             \/ /\ geo' = geo
                /\ d' = afterUpsertError([dd EXCEPT !.v = NoVenue])
                /\ log' = [called EXCEPT !.upsertRes = Append(@, "geoadd failed"),
                                         !.upsertErr = TRUE]
    /\ lw' = handOver(d', lw)
    /\ UNCHANGED <<kv, live>>

\* AddLocationWithJSON: the SET of the payload, which succeeds or fails; UpsertVenue returns.
UpsertSet ==
    /\ d.pc = "upsert_set"
    /\ LET v == d.v
       IN \/ /\ kv' = addLocationSet(kv, upsertMember(v), v)
             /\ log' = [log EXCEPT !.upsertRes = Append(@, "ok")]
             /\ d' = nextVenue([d EXCEPT !.v = NoVenue])
          \/ /\ kv' = kv
             /\ log' = [log EXCEPT !.upsertRes = Append(@, "set failed"), !.upsertErr = TRUE]
             /\ d' = afterUpsertError([d EXCEPT !.v = NoVenue])
    /\ lw' = handOver(d', lw)
    /\ UNCHANGED <<geo, live>>

\* fetchAndCacheLiveForecasts after the ID at b.lv.
nextLive(b) ==
    IF b.lv < Len(b.ids)
    THEN [b EXCEPT !.pc = "fetch", !.lv = b.lv + 1, !.lf = NoLF]
    ELSE [b EXCEPT !.pc = "done", !.lf = NoLF]

\* The caller of a batch that has ended: RefreshVenuesData returns nil.
batchEnded(w, b) ==
    IF w = "postUpsert" /\ b.pc = "done"
    THEN [d EXCEPT !.pc = "done", !.ret = "nil"]
    ELSE d

\* BestTimeApiClient.GetLiveForecast: without a venue ID (and with no name and
\* address, as the refresher calls it) the client returns an error.
liveResponses(vid) == IF vid = "" THEN {} ELSE ProviderLive(vid)

\* A batch that ends at the first GetLiveForecast error.
afterFetchError_Abort(b) == [b EXCEPT !.pc = "done", !.lf = NoLF]

\* fetchAndCacheLiveForecasts: a GetLiveForecast error is logged, the loop continues.
afterFetchError(b) == nextLive(b)

\* fetchAndCacheLiveForecasts: what a GetLiveForecast error does to the cache:
\* nothing, the error is logged and the loop goes to the next ID.
\* A batch that deletes the cached entry of an ID whose fetch failed.
cacheAfterFetchError_Delete(store, vid) == RedisDel(store, deleteLiveForecastKey(vid))
cacheAfterFetchError(store, vid) == store

\* fetchAndCacheLiveForecasts: GetLiveForecast for one ID fails or returns an entry.
LiveFetch(w) ==
    /\ lw[w].pc = "fetch"
    /\ LET vid == lw[w].ids[lw[w].lv]
       IN \/ /\ lw' = [lw EXCEPT ![w] = afterFetchError(lw[w])]
             /\ kv' = cacheAfterFetchError(kv, vid)
          \/ \E lf \in liveResponses(vid) :
                /\ lw' = [lw EXCEPT ![w] = [lw[w] EXCEPT !.pc = "write", !.lf = lf]]
                /\ kv' = kv
    /\ d' = batchEnded(w, lw'[w])
    /\ UNCHANGED geo

\* fetchAndCacheLiveForecasts: DeleteLiveForecast of the requested ID for a stale
\* entry, else SetLiveForecast of the fetched entry; the call succeeds (ok) or fails.
LiveWrite(w, ok) ==
    /\ lw[w].pc = "write"
    /\ LET vid == lw[w].ids[lw[w].lv]
           lf == lw[w].lf
       IN kv' = IF ~ok THEN kv
                ELSE IF staleLive(lf)
                     THEN RedisDel(kv, deleteLiveForecastKey(vid))
                     ELSE RedisSet(kv, setLiveForecastKey(lf), Marshal(lf))
    /\ lw' = [lw EXCEPT ![w] = nextLive(lw[w])]
    /\ d' = batchEnded(w, lw'[w])
    /\ UNCHANGED geo

\* Step 4 of RefreshVenuesData, in the run of the discovery pipeline.
PostUpsertFetch ==
    /\ LiveFetch("postUpsert")
    /\ LET fetched == lw'["postUpsert"].pc = "write"
       IN log' = [EmptyLog EXCEPT
                     !.liveCalls = Append(log.liveCalls, lw["postUpsert"].ids[lw["postUpsert"].lv]),
                     !.liveErrs = IF fetched THEN log.liveErrs
                                  ELSE log.liveErrs \cup {<<lw["postUpsert"].lv, "fetch">>},
                     !.upsertErr = log.upsertErr,
                     !.lastLive = IF fetched THEN "fetched" ELSE "fetch error"]
    /\ UNCHANGED live

PostUpsertWrite ==
    /\ \E ok \in BOOLEAN :
          /\ LiveWrite("postUpsert", ok)
          /\ log' = [log EXCEPT !.lastLive = IF ok THEN "written" ELSE "write error",
                                !.liveErrs = IF ok THEN @ ELSE @ \cup {<<lw["postUpsert"].lv, "write">>}]
    /\ UNCHANGED live

Next ==
    \/ StartRun
    \/ StartSearch
    \/ AfterKickoff
    \/ Poll
    \/ DedupSkip
    \/ DedupAccept
    \/ UpsertSet
    \/ PostUpsertFetch
    \/ PostUpsertWrite

Spec == Init /\ [][Next]_vars

\* A run in which every call the refresher makes returns: the goroutine of the
\* run, once in the run, takes its next step.
ReturningCalls ==
    \/ StartSearch
    \/ AfterKickoff
    \/ Poll
    \/ DedupSkip
    \/ DedupAccept
    \/ UpsertSet
    \/ PostUpsertFetch
    \/ PostUpsertWrite

FairRun == WF_vars(ReturningCalls)

SpecRun == Init /\ [][Next]_vars /\ FairRun

(***************************************************************************)
(* Filtered discovery: RefreshVenuesDataByVenuesFilter, one VenueFilter    *)
(* query, then the dedup and upsert of its records and, if asked for, the  *)
(* live-forecast fetch of the unique IDs.                                  *)
(***************************************************************************)
\* The records VenueFilter can return: an ID or none, a name or none.
FilterVenues ==
    { [venue_id |-> id, venue_name |-> n, venue_lat |-> IF n = "Y" THEN 1 ELSE 0, venue_lon |-> 0] :
         id \in VenueIDs, n \in VenueNames \cup {""} }

VenueFilterResponse == [Status : {"OK", "Error"}, VenuesN : 0..MaxVenues]

\* A loop without the test for a record that has no ID and no name.
filterReason_NoKeyTest(vf, seenIDs, seenNames) ==
    IF vf.venue_id # "" /\ vf.venue_id \in seenIDs THEN "id"
    ELSE IF vf.venue_name # "" /\ vf.venue_name \in seenNames THEN "name"
    ELSE "none"

\* RefreshVenuesDataByVenuesFilter: why a record is skipped, "none" if it is kept.
filterReason(vf, seenIDs, seenNames) ==
    IF vf.venue_id = "" /\ vf.venue_name = "" THEN "nokey"
    ELSE IF vf.venue_id # "" /\ vf.venue_id \in seenIDs THEN "id"
    ELSE IF vf.venue_name # "" /\ vf.venue_name \in seenNames THEN "name"
    ELSE "none"

mapVenueFilterVenueToVenue(vf) ==
    [venue_id |-> vf.venue_id, venue_name |-> vf.venue_name,
     venue_lat |-> vf.venue_lat, venue_lon |-> vf.venue_lon]

\* RefreshVenuesDataByVenuesFilter: the bookkeeping after an upsert that succeeded.
filterMark(dd, v) ==
    [dd EXCEPT !.seenIDs = IF v.venue_id # "" THEN @ \cup {v.venue_id} ELSE @,
               !.uniqueIDs = IF v.venue_id # "" THEN Append(@, v.venue_id) ELSE @,
               !.seenNames = IF v.venue_name # "" THEN @ \cup {v.venue_name} ELSE @]

\* A run that fetches the live forecasts whatever fetchAndCacheLive says.
filterReturn_AlwaysLive(dd) ==
    LET returned == [Idle EXCEPT !.entry = dd.entry, !.fetchAndCacheLive = dd.fetchAndCacheLive,
                                 !.ids = dd.uniqueIDs]
    IN IF Len(dd.uniqueIDs) > 0
       THEN [returned EXCEPT !.pc = "live"]
       ELSE [returned EXCEPT !.pc = "done", !.ret = "nil"]

\* RefreshVenuesDataByVenuesFilter after its loop: the live-forecast fetch or the return.
filterReturn(dd) ==
    LET returned == [Idle EXCEPT !.entry = dd.entry, !.fetchAndCacheLive = dd.fetchAndCacheLive,
                                 !.ids = dd.uniqueIDs]
    IN IF dd.fetchAndCacheLive /\ Len(dd.uniqueIDs) > 0
       THEN [returned EXCEPT !.pc = "live"]
       ELSE [returned EXCEPT !.pc = "done", !.ret = "nil"]

\* The loop over resp.Venues after record dd.k.
filterNext(dd) ==
    IF dd.k < dd.resp.VenuesN
    THEN [dd EXCEPT !.pc = "fdedup", !.k = dd.k + 1, !.v = NoVenue]
    ELSE filterReturn(dd)

\* One record through the dedup loop of processJobHandles, for comparison.
searchFlowStep(sf, v) ==
    IF dupReason(v, sf.seenIDs, sf.seenNames) # "none"
    THEN [sf EXCEPT !.allKeyed = @ /\ (v.venue_id # "" \/ v.venue_name # "")]
    ELSE [seenIDs |-> sf.seenIDs \cup {v.venue_id},
          seenNames |-> sf.seenNames \cup {v.venue_name},
          uniqueIDs |-> Append(sf.uniqueIDs, v.venue_id),
          upserts |-> Append(sf.upserts, v),
          allKeyed |-> sf.allKeyed /\ (v.venue_id # "" \/ v.venue_name # "")]

filterLog(v, why) ==
    [procLog(v, why) EXCEPT !.searchFlow = searchFlowStep(@, v)]

\* RefreshVenuesDataByVenuesFilter(params, fetchAndCacheLive) is called.
StartFilterRun ==
    /\ d.pc = "idle"
    /\ \E f \in BOOLEAN :
          d' = [Idle EXCEPT !.pc = "filter", !.entry = "RefreshVenuesDataByVenuesFilter",
                            !.fetchAndCacheLive = f]
    /\ log' = EmptyLog
    /\ UNCHANGED <<kv, geo, lw, live>>

\* RefreshVenuesDataByVenuesFilter after VenueFilter has returned a response: a
\* status other than "OK" ends the run with nil, nil; else the loop over the
\* records follows.
\* A run that goes on to the records whatever the status.
afterVenueFilter_IgnoreStatus(dd, resp) ==
    IF resp.VenuesN = 0
    THEN filterReturn(dd)
    ELSE [dd EXCEPT !.pc = "fdedup", !.resp = resp, !.k = 1]
afterVenueFilter(dd, resp) ==
    IF resp.Status # "OK"
    THEN [dd EXCEPT !.pc = "done", !.ret = "nil", !.resp = resp]
    ELSE IF resp.VenuesN = 0
         THEN filterReturn(dd)
         ELSE [dd EXCEPT !.pc = "fdedup", !.resp = resp, !.k = 1]

\* The VenueFilter query: an error is returned to the caller, a response is
\* looked at.
VenueFilter ==
    /\ d.pc = "filter"
    /\ \/ d' = [d EXCEPT !.pc = "done", !.ret = "error", !.err = TRUE]
       \/ \E resp \in VenueFilterResponse : d' = afterVenueFilter(d, resp)
    /\ lw' = handOver(d', lw)
    /\ UNCHANGED <<kv, geo, log, live>>

\* The loop skips a record: no ID and no name, or a duplicate.
FilterSkip ==
    /\ d.pc = "fdedup"
    /\ \E vf \in FilterVenues :
          LET why == filterReason(vf, d.seenIDs, d.seenNames)
          IN /\ why # "none"
             /\ log' = filterLog(vf, why)
             /\ d' = filterNext(d)
    /\ lw' = handOver(d', lw)
    /\ UNCHANGED <<kv, geo, live>>

\* The loop keeps a record and calls UpsertVenue; AddLocationWithJSON issues its
\* GEOADD, which succeeds or fails; after a failure nothing is recorded as seen.
FilterAccept ==
    /\ d.pc = "fdedup"
    /\ \E vf \in FilterVenues :
       LET v == mapVenueFilterVenueToVenue(vf)
           called == [filterLog(vf, "none") EXCEPT !.upserts = Append(@, v)]
       IN /\ filterReason(vf, d.seenIDs, d.seenNames) = "none"
          /\ \/ /\ geo' = addLocationGeoAdd(geo, upsertMember(v), v.venue_lat, v.venue_lon)
                /\ d' = [d EXCEPT !.pc = "fupsert_set", !.v = v]
                /\ log' = called
             \/ /\ geo' = geo
                /\ d' = filterNext(d)
                /\ log' = [called EXCEPT !.upsertRes = Append(@, "geoadd failed"),
                                         !.upsertErr = TRUE]
    /\ lw' = handOver(d', lw)
    /\ UNCHANGED <<kv, live>>

\* AddLocationWithJSON: the SET of the payload; the record is marked as seen
\* only when UpsertVenue returned success.
FilterUpsertSet ==
    /\ d.pc = "fupsert_set"
    /\ \/ /\ kv' = addLocationSet(kv, upsertMember(d.v), d.v)
          /\ log' = [log EXCEPT !.upsertRes = Append(@, "ok")]
          /\ d' = filterNext(filterMark(d, d.v))
       \/ /\ kv' = kv
          /\ log' = [log EXCEPT !.upsertRes = Append(@, "set failed"), !.upsertErr = TRUE]
          /\ d' = filterNext(d)
    /\ lw' = handOver(d', lw)
    /\ UNCHANGED <<geo, live>>

NextFilter ==
    \/ StartFilterRun
    \/ VenueFilter
    \/ FilterSkip
    \/ FilterAccept
    \/ FilterUpsertSet
    \/ PostUpsertFetch
    \/ PostUpsertWrite

SpecFilter == Init /\ [][NextFilter]_vars

\* A discovery run of either kind: search/poll or filtered.
NextDiscovery == Next \/ NextFilter

SpecDiscovery == Init /\ [][NextDiscovery]_vars

(***************************************************************************)
(* The live-forecast cache under the two background jobs: the post-upsert  *)
(* fetch of the discovery job and RefreshLiveForecastsForAllVenues of the  *)
(* live-forecast job, each a sequence of runs, the two interleaved.        *)
(***************************************************************************)
\* KEYS format:* : the keys of the pattern that hold a value.
RedisKeys(store, format) == { key \in DOMAIN store : key[1] = format /\ store[key] # RedisNil }

\* ListAllVenueIDs: the keys of the venue payloads, stripped of their prefix.
ListAllVenueIDs(store) == { key[2] : key \in RedisKeys(store, VENUES_GEO_PLACE_MEMBER_FORMAT_V1) }

\* The venue the provider has for an ID.
CatalogVenue(id) ==
    [venue_id |-> id, venue_name |-> IF id = "1" THEN "X" ELSE "Y",
     venue_lat |-> IF id = "1" THEN 0 ELSE 1, venue_lon |-> 0]

\* The store after earlier discovery runs upserted the venues of some IDs.
InitLive ==
    /\ \E S \in SUBSET LiveIDs :
          /\ kv = [key \in StoreKeys |->
                      IF key[1] = VENUES_GEO_PLACE_MEMBER_FORMAT_V1 /\ key[2] \in S
                      THEN Marshal(CatalogVenue(key[2])) ELSE RedisNil]
          /\ geo = [m \in MemberKeys |->
                      IF m[2] \in S
                      THEN GeoLocation(CatalogVenue(m[2]).venue_lat, CatalogVenue(m[2]).venue_lon)
                      ELSE NoPos]
    /\ d = Idle
    /\ lw = [w \in Workers |-> IdleBatch]
    /\ log = EmptyLog
    /\ live = NoLive

\* RefreshVenuesData gets to step 4 with the unique IDs of its dedup.
PostUpsertBatch ==
    /\ d.pc \in {"idle", "done"}
    /\ \E S \in SUBSET LiveIDs : \E ids \in Listings(S) :
          /\ Len(ids) > 0
          /\ d' = [Idle EXCEPT !.pc = "live", !.entry = "RefreshVenuesData", !.ids = ids]
    /\ lw' = handOver(d', lw)
    /\ live' = [live EXCEPT !.lastStep = NoStep]
    /\ UNCHANGED <<kv, geo, log>>

\* RefreshLiveForecastsForAllVenues: ListAllVenueIDs fails and the error is
\* returned, or fetchAndCacheLiveForecasts runs on the IDs listed.
RefreshLiveForecastsForAllVenues ==
    /\ lw["refreshAll"].pc \in {"idle", "done"}
    /\ \/ lw' = [lw EXCEPT !["refreshAll"] = [IdleBatch EXCEPT !.pc = "done", !.ret = "error"]]
       \/ \E ids \in Listings(ListAllVenueIDs(kv)) :
             lw' = [lw EXCEPT !["refreshAll"] = [startBatch(ids) EXCEPT !.ret = "nil"]]
    /\ live' = [live EXCEPT !.lastStep = NoStep]
    /\ UNCHANGED <<kv, geo, d, log>>

fetchOutcome(b) ==
    IF b.pc # "write" THEN "error"
    ELSE IF staleLive(b.lf) THEN "stale" ELSE "ok"

\* A fetch of a batch, with the record of its outcome for the ID fetched.
RefresherFetch(w) ==
    /\ LiveFetch(w)
    /\ live' = [lastFetch |-> [live.lastFetch EXCEPT ![lw[w].ids[lw[w].lv]] = fetchOutcome(lw'[w])],
                lastStep |-> NoStep]
    /\ UNCHANGED log

\* A cache write of a batch, with the record of the ID, the entry and the outcome.
RefresherWrite(w) ==
    /\ \E ok \in BOOLEAN :
          /\ LiveWrite(w, ok)
          /\ live' = [live EXCEPT !.lastStep =
                         [vid |-> lw[w].ids[lw[w].lv], lf |-> lw[w].lf, ok |-> ok]]
    /\ UNCHANGED log

NextLive ==
    \/ PostUpsertBatch
    \/ RefreshLiveForecastsForAllVenues
    \/ \E w \in Workers : RefresherFetch(w)
    \/ \E w \in Workers : RefresherWrite(w)

SpecLive == InitLive /\ [][NextLive]_vars

(***************************************************************************)
(* RefreshCachedLiveForecasts: runs of the refresh of the live forecasts   *)
(* that are in the cache, one after the other, on a cache earlier fetches  *)
(* have filled.                                                            *)
(***************************************************************************)
\* ListCachedLiveForecastVenueIDs: the keys of the live entries, stripped of
\* their prefix.
ListCachedLiveForecastVenueIDs(store) ==
    { key[2] : key \in RedisKeys(store, LIVE_FORECAST_KEY_FORMAT) }

\* The entry an earlier fetch has cached for an ID.
CachedEntry(id) ==
    [Status |-> "OK", VenueLiveBusyness |-> 10, VenueLiveBusynessAvailable |-> TRUE, VenueID |-> id]

InitCached ==
    /\ \E S \in SUBSET LiveIDs :
          kv = [key \in StoreKeys |->
                   IF key[1] = LIVE_FORECAST_KEY_FORMAT /\ key[2] \in S
                   THEN Marshal(CachedEntry(key[2])) ELSE RedisNil]
    /\ geo = [m \in MemberKeys |-> NoPos]
    /\ d = Idle
    /\ lw = [w \in Workers |-> IdleBatch]
    /\ log = [EmptyLog EXCEPT !.storeBefore = kv]
    /\ live = NoLive

\* RefreshCachedLiveForecasts: the listing fails and the error is returned, or
\* fetchAndCacheLiveForecasts runs on the IDs listed and nil is returned.
RefreshCachedLiveForecasts ==
    /\ lw["refreshCached"].pc \in {"idle", "done"}
    /\ \/ lw' = [lw EXCEPT !["refreshCached"] = [IdleBatch EXCEPT !.pc = "done", !.ret = "error"]]
       \/ \E ids \in Listings(ListCachedLiveForecastVenueIDs(kv)) :
             lw' = [lw EXCEPT !["refreshCached"] = [startBatch(ids) EXCEPT !.ret = "nil"]]
    /\ log' = [EmptyLog EXCEPT !.storeBefore = kv]
    /\ live' = NoLive
    /\ UNCHANGED <<kv, geo, d>>

\* The fetch of the batch, with the record of the provider call.
CachedFetch ==
    /\ LiveFetch("refreshCached")
    /\ LET vid == lw["refreshCached"].ids[lw["refreshCached"].lv]
       IN /\ log' = [log EXCEPT !.liveCalls = Append(@, vid)]
          /\ live' = [lastFetch |-> [live.lastFetch EXCEPT ![vid] = fetchOutcome(lw'["refreshCached"])],
                      lastStep |-> NoStep]

\* The cache write of the batch.
CachedWrite ==
    /\ \E ok \in BOOLEAN :
          /\ LiveWrite("refreshCached", ok)
          /\ live' = [live EXCEPT !.lastStep =
                         [vid |-> lw["refreshCached"].ids[lw["refreshCached"].lv],
                          lf |-> lw["refreshCached"].lf, ok |-> ok]]
    /\ UNCHANGED log

NextCached ==
    \/ RefreshCachedLiveForecasts
    \/ CachedFetch
    \/ CachedWrite

SpecCached == InitCached /\ [][NextCached]_vars

(***************************************************************************)
(* The venue DAO called directly, as the HTTP handlers and the refresher   *)
(* call it: UpsertVenue and GetNearbyVenues on one shared store.           *)
(***************************************************************************)
Radii == {0, 1}

\* The venues a caller upserts: two IDs, each at either place.
StoreVenues == { v \in ProviderVenues : v.venue_id # "" }
StoreMembers == { VenueKey(v.venue_id) : v \in StoreVenues }

\* A payload that is not the JSON of a venue.
NotJSON == [tag |-> "text"]

\* The failures of the store a read can meet.
ReadFailures == [radius : BOOLEAN, gets : SUBSET StoreMembers]

\* UpsertVenue, first step of AddLocationWithJSON: the GEOADD succeeds or fails;
\* when it fails UpsertVenue returns the error.
UpsertVenueGeoAdd ==
    /\ d.pc = "idle"
    /\ \E v \in StoreVenues :
       LET call == [v |-> v, res |-> "geoadd", geo |-> geo, kv |-> kv]
       IN \/ /\ geo' = addLocationGeoAdd(geo, upsertMember(v), v.venue_lat, v.venue_lon)
             /\ d' = [d EXCEPT !.pc = "dao_set", !.entry = "UpsertVenue", !.v = v]
             /\ log' = [log EXCEPT !.lastUpsert = call, !.lastRead = NoRead,
                                   !.lastResponse = NoResponse]
          \/ /\ geo' = geo
             /\ d' = d
             /\ log' = [log EXCEPT !.lastUpsert = [call EXCEPT !.res = "geoadd failed"],
                                   !.lastRead = NoRead, !.lastResponse = NoResponse]
    /\ UNCHANGED <<kv, lw, live>>

\* UpsertVenue, second step of AddLocationWithJSON: the SET of the payload succeeds
\* or fails, and UpsertVenue returns.
UpsertVenueSet ==
    /\ d.pc = "dao_set"
    /\ LET v == d.v
       IN \/ /\ kv' = addLocationSet(kv, upsertMember(v), v)
             /\ log' = [log EXCEPT !.lastUpsert.res = "ok", !.known[v.venue_id] = v]
          \/ /\ kv' = kv
             /\ log' = [log EXCEPT !.lastUpsert.res = "set failed"]
    /\ d' = [d EXCEPT !.pc = "idle", !.entry = "none", !.v = NoVenue]
    /\ UNCHANGED <<geo, lw, live>>

\* RedisClient.Set by another writer of the store: a value that is not a venue's
\* JSON is put under a member key.
SetOtherValue ==
    /\ d.pc = "idle"
    /\ \E m \in StoreMembers : kv' = RedisSet(kv, m, NotJSON)
    /\ log' = [log EXCEPT !.lastUpsert = NoUpsert, !.lastRead = NoRead,
                          !.lastResponse = NoResponse]
    /\ UNCHANGED <<geo, d, lw, live>>

\* GetNearbyVenues for a centre and a radius; the store may fail on the radius
\* query and on the GET of members, and lists the members in an order of its own.
NearbyVenues ==
    /\ d.pc = "idle"
    /\ \E lat \in Lats, lon \in Lons, radius \in Radii, fail \in ReadFailures :
       \E order \in Listings(RedisGeoRadius(geo, lat, lon, radius)) :
          log' = [log EXCEPT
                     !.lastUpsert = NoUpsert,
                     !.lastRead = [lat |-> lat, lon |-> lon, radius |-> radius,
                                   fail |-> fail, order |-> order,
                                   ret |-> GetNearbyVenues(geo, kv, lat, lon, radius, fail, order)]]
    /\ UNCHANGED <<kv, geo, d, lw, live>>

NextStore ==
    \/ UpsertVenueGeoAdd
    \/ UpsertVenueSet
    \/ SetOtherValue
    \/ NearbyVenues

SpecStore == Init /\ [][NextStore]_vars

(***************************************************************************)
(* The forecast entries of the DAO: the live forecast of a venue and the   *)
(* raw weekly forecast of a venue and a day, on either client of the store.*)
(***************************************************************************)
WEEKLY_FORECAST_KEY_FORMAT == "weekly_forecast_v1"
Days == {0, 1}
WeekKey(venueID, dayInt) == <<WEEKLY_FORECAST_KEY_FORMAT, venueID, dayInt>>
WeekKeys == { WeekKey(id, day) : id \in VenueIDs \ {""}, day \in Days }

\* The texts of errors, character by character.
redisNilText == <<"r", "e", "d", "i", "s", ":", " ", "n", "i", "l">>
keyNotFoundText == <<"k", "e", "y", " ", "n", "o", "t", " ", "f", "o", "u", "n", "d", ":", " ">>
timeoutText == <<"i", "/", "o", " ", "t", "i", "m", "e", "o", "u", "t">>
lookupText == <<"l", "o", "o", "k", "u", "p", " ", "m", "a", "n", "i", "l", "a", ":", " ", "n", "o", " ", "s", "u", "c", "h", " ", "h", "o", "s", "t">>
nilText == <<"n", "i", "l">>
FormatText(format) ==
    IF format = WEEKLY_FORECAST_KEY_FORMAT THEN <<"w", "e", "e", "k", "l", "y", "_", "f", "o", "r", "e", "c", "a", "s", "t", "_", "v", "1">>
    ELSE IF format = LIVE_FORECAST_KEY_FORMAT THEN <<"l", "i", "v", "e", "_", "f", "o", "r", "e", "c", "a", "s", "t", "_", "v", "1">>
    ELSE <<"v", "e", "n", "u", "e", "s", "_", "g", "e", "o", "_", "p", "l", "a", "c", "e", "_", "v", "1">>
KeyText(key) ==
    FormatText(key[1]) \o <<":">> \o (IF key[2] = "" THEN <<>> ELSE <<key[2]>>)
       \o (IF Len(key) = 3 THEN <<"_", IF key[3] = 0 THEN "0" ELSE "1">> ELSE <<>>)

\* strings.Contains
stringsContains(s, substr) ==
    \E i \in 1..(Len(s) - Len(substr) + 1) : SubSeq(s, i, i + Len(substr) - 1) = substr

\* A Go error: nil, an error with its text, or an error that wraps another.
NilErr == [isNil |-> TRUE]
Errorf(text, cause) == [wrap |-> text, cause |-> cause]

\* The two implementations of db.RedisClient, and the ways a GET of the Redis
\* server can fail besides a missing key: a timeout, and a failed lookup of a host
\* whose name has the letters n, i, l.
Clients == {"GeoRedisClient", "MockRedisClient"}
StoreFailures == {"none", "timeout", "lookup"}

\* RedisClient.Get: go-redis answers a missing key with the error redis.Nil
\* ("redis: nil"); the mock with "key not found: <key>", and the mock never fails
\* otherwise.
clientGet(client, store, key, failure) ==
    IF client = "MockRedisClient"
    THEN IF store[key] = RedisNil
         THEN [value |-> RedisNil, err |-> [msg |-> keyNotFoundText \o KeyText(key)]]
         ELSE [value |-> store[key], err |-> NilErr]
    ELSE IF failure = "timeout" THEN [value |-> RedisNil, err |-> [msg |-> timeoutText]]
    ELSE IF failure = "lookup" THEN [value |-> RedisNil, err |-> [msg |-> lookupText]]
    ELSE IF store[key] = RedisNil THEN [value |-> RedisNil, err |-> [msg |-> redisNilText]]
    ELSE [value |-> store[key], err |-> NilErr]

\* RedisClient.Del: the mock deletes nothing.
clientDel(client, store, key) ==
    IF client = "MockRedisClient" THEN store ELSE RedisDel(store, key)

\* RedisVenueDAO.GetLiveForecast: every error of Get is returned as an error.
GetLiveForecast(client, store, venueID, failure) ==
    LET got == clientGet(client, store, LiveKey(venueID), failure)
    IN IF got.err # NilErr
       THEN [f |-> NoLF, err |-> Errorf("failed to get live forecast from redis", got.err)]
       ELSE IF ~IsJSON(got.value)
            THEN [f |-> NoLF, err |-> Errorf("failed to unmarshal live forecast JSON", NilErr)]
            ELSE [f |-> Unmarshal(got.value), err |-> NilErr]

\* RedisVenueDAO.GetWeekRawForecast: an error of Get whose text contains "nil" is
\* a cache miss, any other is returned as an error.
NoDay == [isNil |-> TRUE]
isCacheMiss(err) == stringsContains(err.msg, nilText)
GetWeekRawForecast(client, store, venueID, dayInt, failure) ==
    LET got == clientGet(client, store, WeekKey(venueID, dayInt), failure)
    IN IF got.err # NilErr
       THEN IF isCacheMiss(got.err)
            THEN [d |-> NoDay, err |-> NilErr]
            ELSE [d |-> NoDay, err |-> Errorf("failed to get weekly raw forecast from redis", got.err)]
       ELSE IF ~IsJSON(got.value)
            THEN [d |-> NoDay, err |-> Errorf("failed to unmarshal weekly raw forecast JSON", NilErr)]
            ELSE [d |-> Unmarshal(got.value), err |-> NilErr]

\* The entries written: a live forecast of a venue, a raw forecast of a day.
ForecastEntries ==
    { lf \in LiveForecastResponse :
         lf.VenueID # "" /\ lf.Status = "OK" /\ lf.VenueLiveBusynessAvailable }
WeekRawDay == [DayInt : Days]

InitForecast ==
    /\ kv = [key \in StoreKeys \cup WeekKeys |-> RedisNil]
    /\ geo = [m \in MemberKeys |-> NoPos]
    /\ \E client \in Clients : d = [pc |-> "idle", client |-> client]
    /\ lw = [w \in Workers |-> IdleBatch]
    /\ log = EmptyLog
    /\ live = NoLive

\* SetLiveForecast: the entry is stored under the key of its venue ID, or the SET fails.
SetLiveForecast ==
    /\ \E f \in ForecastEntries :
          kv' \in { RedisSet(kv, setLiveForecastKey(f), Marshal(f)), kv }
    /\ log' = [log EXCEPT !.lastGet = NoGet, !.lastUpsert = NoUpsert,
                          !.lastResponse = NoResponse]
    /\ UNCHANGED <<geo, d, lw, live>>

\* DeleteLiveForecast: the key of the venue ID is deleted, or the DEL fails.
DeleteLiveForecast ==
    /\ \E venueID \in VenueIDs \ {""} :
          kv' \in { clientDel(d.client, kv, deleteLiveForecastKey(venueID)), kv }
    /\ log' = [log EXCEPT !.lastGet = NoGet, !.lastUpsert = NoUpsert,
                          !.lastResponse = NoResponse]
    /\ UNCHANGED <<geo, d, lw, live>>

\* SetWeekRawForecast: the day is stored under the key of the venue and the day.
SetWeekRawForecast ==
    /\ \E venueID \in VenueIDs \ {""}, day \in WeekRawDay :
          kv' \in { RedisSet(kv, WeekKey(venueID, day.DayInt), Marshal(day)), kv }
    /\ log' = [log EXCEPT !.lastGet = NoGet, !.lastUpsert = NoUpsert,
                          !.lastResponse = NoResponse]
    /\ UNCHANGED <<geo, d, lw, live>>

\* A call of GetLiveForecast.
ReadLiveForecast ==
    /\ \E venueID \in VenueIDs \ {""}, failure \in StoreFailures :
          log' = [log EXCEPT !.lastGet =
                     [op |-> "GetLiveForecast", key |-> LiveKey(venueID), failure |-> failure,
                      ret |-> GetLiveForecast(d.client, kv, venueID, failure)]]
    /\ UNCHANGED <<kv, geo, d, lw, live>>

\* A call of GetWeekRawForecast.
ReadWeekRawForecast ==
    /\ \E venueID \in VenueIDs \ {""}, dayInt \in Days, failure \in StoreFailures :
          log' = [log EXCEPT !.lastGet =
                     [op |-> "GetWeekRawForecast", key |-> WeekKey(venueID, dayInt),
                      failure |-> failure,
                      ret |-> GetWeekRawForecast(d.client, kv, venueID, dayInt, failure)]]
    /\ UNCHANGED <<kv, geo, d, lw, live>>

NextForecast ==
    \/ SetLiveForecast
    \/ DeleteLiveForecast
    \/ SetWeekRawForecast
    \/ ReadLiveForecast
    \/ ReadWeekRawForecast

SpecForecast == InitForecast /\ [][NextForecast]_vars

(***************************************************************************)
(* VenueHandler.mergeLive on a list of venues and a cache of live entries. *)
(***************************************************************************)
MergeIDs == {"A", "B", "C", "D"}
MergeBusyness == {30, 80}
MergeVenue(id) == [venue_id |-> id, venue_name |-> id, venue_lat |-> 0, venue_lon |-> 0]
MergeLiveEntry(id, busyness) ==
    [Status |-> "OK", VenueLiveBusyness |-> busyness,
     VenueLiveBusynessAvailable |-> TRUE, VenueID |-> id]

\* The loop of mergeLive: every venue is appended, with its live entry, or with
\* none when GetLiveForecast returns an error.
appendWithLive(client, store, venues, failure) ==
    [i \in 1..Len(venues) |->
        LET got == GetLiveForecast(client, store, venues[i].venue_id, failure[venues[i].venue_id])
        IN [Venue |-> venues[i], Live |-> IF got.err # NilErr THEN NoLF ELSE got.f]]

\* The less function of the sort.
\* A less function that puts the lower live busyness first.
liveLess_Ascending(x, y) ==
    IF x.Live # NoLF /\ y.Live = NoLF THEN TRUE
    ELSE IF x.Live = NoLF /\ y.Live # NoLF THEN FALSE
    ELSE IF x.Live = NoLF /\ y.Live = NoLF THEN FALSE
    ELSE x.Live.VenueLiveBusyness < y.Live.VenueLiveBusyness
liveLess(x, y) ==
    IF x.Live # NoLF /\ y.Live = NoLF THEN TRUE
    ELSE IF x.Live = NoLF /\ y.Live # NoLF THEN FALSE
    ELSE IF x.Live = NoLF /\ y.Live = NoLF THEN FALSE
    ELSE x.Live.VenueLiveBusyness > y.Live.VenueLiveBusyness

\* sort.SliceStable on a slice of at most 20 elements is an insertion sort: the
\* element at j moves down while it is less than the one before it.
RECURSIVE sinkDown(_, _)
sinkDown(out, j) ==
    IF j > 1 /\ liveLess(out[j], out[j - 1])
    THEN sinkDown([out EXCEPT ![j] = out[j - 1], ![j - 1] = out[j]], j - 1)
    ELSE out
RECURSIVE insertionSort(_, _)
insertionSort(out, i) ==
    IF i > Len(out) THEN out ELSE insertionSort(sinkDown(out, i), i + 1)
SliceStable(out) == insertionSort(out, 2)

mergeLive(client, store, venues, failure) ==
    SliceStable(appendWithLive(client, store, venues, failure))

\* The lists of distinct venues, and the caches of live entries, mergeLive is
\* called with.
MergeInputs == UNION { Listings(S) : S \in SUBSET MergeIDs }
MergeCaches ==
    { [key \in { LiveKey(id) : id \in MergeIDs } |->
          IF c[key[2]] = 0 THEN RedisNil ELSE Marshal(MergeLiveEntry(key[2], c[key[2]]))] :
      c \in [MergeIDs -> MergeBusyness \cup {0}] }
NoStoreFailure == [id \in MergeIDs |-> "none"]

InitMerge ==
    /\ kv \in MergeCaches
    /\ geo = [m \in MemberKeys |-> NoPos]
    /\ \E ids \in MergeInputs :
          d = [pc |-> "merge", client |-> "GeoRedisClient",
               venues |-> [i \in 1..Len(ids) |-> MergeVenue(ids[i])], out |-> <<>>]
    /\ lw = [w \in Workers |-> IdleBatch]
    /\ log = EmptyLog
    /\ live = NoLive

MergeLive ==
    /\ d.pc = "merge"
    /\ d' = [d EXCEPT !.pc = "merged",
                      !.out = mergeLive(d.client, kv, d.venues, NoStoreFailure)]
    /\ UNCHANGED <<kv, geo, lw, log, live>>

\* mergeLive of server/handlers/venue_handler.go: a venue whose GetLiveForecast
\* returns an error is skipped, the others are sorted by live busyness,
\* descending. sort.Slice on fewer than 12 elements is an insertion sort, and on
\* elements that all have a live entry its less function is liveLess.
mergeLiveSkipping(client, store, venues, failure) ==
    insertionSort(SelectSeq(appendWithLive(client, store, venues, failure),
                            LAMBDA e : e.Live # NoLF), 2)

\* The handler of server/handlers/venue_handler.go merges.
MergeLiveSkipping ==
    /\ d.pc = "merge"
    /\ d' = [d EXCEPT !.pc = "mergedSkipping",
                      !.out = mergeLiveSkipping(d.client, kv, d.venues, NoStoreFailure)]
    /\ UNCHANGED <<kv, geo, lw, log, live>>

NextMerge == MergeLive \/ MergeLiveSkipping

SpecMerge == InitMerge /\ [][NextMerge]_vars

(***************************************************************************)
(* The nearby-venues endpoint on a store that upserts and live-forecast    *)
(* writes fill.                                                            *)
(***************************************************************************)
\* The failures the GET of each venue's live entry can meet during one request.
LiveFailures == [VenueIDs \ {""} -> {"none", "timeout"}]

\* GetVenuesNearby: the status of the response. Arguments that do not parse are
\* answered with 400, an error of loadNearby with 500, anything else with 200.
\* A handler that answers 500 when a live forecast could not be read.
responseStatus_LiveErrorFails(argsOK, nearbyErr, liveErr) ==
    IF ~argsOK THEN 400 ELSE IF nearbyErr \/ liveErr THEN 500 ELSE 200
responseStatus(argsOK, nearbyErr, liveErr) ==
    IF ~argsOK THEN 400 ELSE IF nearbyErr THEN 500 ELSE 200

InitServe ==
    /\ kv = [key \in StoreKeys |-> RedisNil]
    /\ geo = [m \in MemberKeys |-> NoPos]
    /\ d = Idle @@ [client |-> "GeoRedisClient"]
    /\ lw = [w \in Workers |-> IdleBatch]
    /\ log = EmptyLog
    /\ live = NoLive

\* The failures of the store loadNearby can meet: none, or the radius query fails.
NearbyFailures == { f \in ReadFailures : f.gets = {} }

\* One request of the endpoint. parseArgs rejects the arguments and the handler
\* has answered 400; or loadNearby, mergeLive and the response follow.
GetVenuesNearby ==
    /\ d.pc = "idle"
    /\ \/ log' = [log EXCEPT
                     !.lastUpsert = NoUpsert,
                     !.lastResponse = [status |-> responseStatus(FALSE, FALSE, FALSE),
                                       argsOK |-> FALSE, nearby |-> NoRead,
                                       liveErr |-> FALSE, body |-> <<>>]]
       \/ \E lat \in Lats, lon \in Lons, radius \in Radii,
             fail \in NearbyFailures, failure \in LiveFailures :
          \E order \in Listings(RedisGeoRadius(geo, lat, lon, radius)) :
             LET nearby == GetNearbyVenues(geo, kv, lat, lon, radius, fail, order)
                 lives == [i \in 1..Len(nearby.venues) |->
                             GetLiveForecast(d.client, kv, nearby.venues[i].venue_id,
                                             failure[nearby.venues[i].venue_id])]
                 liveErr == \E i \in 1..Len(lives) : lives[i].err # NilErr
                 status == responseStatus(TRUE, nearby.err, liveErr)
             IN log' = [log EXCEPT
                           !.lastUpsert = NoUpsert,
                           !.lastResponse =
                              [status |-> status, argsOK |-> TRUE, nearby |-> nearby,
                               liveErr |-> liveErr,
                               body |-> IF status = 200
                                        THEN mergeLive(d.client, kv, nearby.venues, failure)
                                        ELSE <<>>]]
    /\ UNCHANGED <<kv, geo, d, lw, live>>

NextServe ==
    \/ GetVenuesNearby
    \/ UpsertVenueGeoAdd
    \/ UpsertVenueSet
    \/ SetOtherValue
    \/ SetLiveForecast
    \/ DeleteLiveForecast

SpecServe == InitServe /\ [][NextServe]_vars

(***************************************************************************)
(* The scheduled jobs: StartVenueDiscoveryJob, StartLiveForecastRefreshJob *)
(* and StartVenueFilterMultiLocationJob each start a goroutine that ranges *)
(* over its own ticker and runs its refresh at every tick it receives.     *)
(***************************************************************************)
Jobs == {"VenueDiscovery", "LiveForecastRefresh", "VenueFilterMultiLocation"}

\* The calls a run of each job makes, one after the other.
RunSteps(j) ==
    IF j = "VenueDiscovery"
    THEN <<"collectJobHandles", "waitBeforePolling", "processJobHandles">>
    ELSE IF j = "LiveForecastRefresh"
    THEN <<"ListAllVenueIDs", "fetchAndCacheLiveForecasts">>
    ELSE <<"RefreshVenuesByFilterForDefaultLocations">>

\* The runs of a job counted since the other job last got stuck, up to a cap.
MaxRunsCounted == 2

NoJob == [pc |-> "none", step |-> 0, blocked |-> FALSE]

InitJobs ==
    /\ kv = [key \in StoreKeys |-> RedisNil]
    /\ geo = [m \in MemberKeys |-> NoPos]
    /\ d = [pc |-> "jobs", started |-> {},
            job |-> [j \in Jobs |-> NoJob],
            tick |-> [j \in Jobs |-> FALSE],
            since |-> [j \in Jobs |-> 0],
            running |-> [j \in Jobs |-> 0]]
    /\ lw = [w \in Workers |-> IdleBatch]
    /\ log = EmptyLog
    /\ live = NoLive

\* What a goroutine waits for before the run of a tick it has received: nothing.
\* A refresher that runs one job at a time.
mayRun_OneAtATime(j, job) == \A k \in Jobs \ {j} : job[k].pc # "run"
mayRun(j, job) == TRUE

\* Where the goroutine of a job takes a tick from its ticker: at the head of its
\* for-range loop, which it is back at when the run of the tick before has returned.
\* A job that starts a goroutine for the run of every tick.
atTicker_GoPerTick(job) == job.pc \in {"range", "run"}
atTicker(job) == job.pc = "range"

\* StartVenueDiscoveryJob / StartLiveForecastRefreshJob /
\* StartVenueFilterMultiLocationJob: the goroutine is started and the call returns.
StartJob(j) ==
    /\ d.job[j].pc = "none"
    /\ d' = [d EXCEPT !.job[j].pc = "range", !.started = @ \cup {j}]
    /\ UNCHANGED <<kv, geo, lw, log, live>>

\* The ticker of a job fires: the tick waits in the channel of the ticker, which
\* holds one tick (a tick that finds one waiting is dropped).
Tick(j) ==
    /\ d.job[j].pc # "none"
    /\ ~d.tick[j]
    /\ d' = [d EXCEPT !.tick[j] = TRUE]
    /\ UNCHANGED <<kv, geo, lw, log, live>>

\* for range ticker.C: the goroutine receives the tick and begins a run.
Receive(j) ==
    /\ atTicker(d.job[j])
    /\ d.tick[j]
    /\ mayRun(j, d.job)
    /\ d' = [d EXCEPT !.tick[j] = FALSE,
                      !.job[j] = [pc |-> "run", step |-> 1, blocked |-> FALSE],
                      !.running[j] = @ + 1,
                      !.since[j] = IF @ < MaxRunsCounted THEN @ + 1 ELSE @]
    /\ UNCHANGED <<kv, geo, lw, log, live>>

\* A call of the run returns: the next one follows, or the run ends and the
\* goroutine is back at its ticker.
RunStep(j) ==
    /\ d.job[j].pc = "run"
    /\ ~d.job[j].blocked
    /\ d' = IF d.job[j].step < Len(RunSteps(j))
            THEN [d EXCEPT !.job[j].step = @ + 1]
            ELSE [d EXCEPT !.job[j] = [pc |-> "range", step |-> 0, blocked |-> FALSE],
                           !.running[j] = @ - 1]
    /\ UNCHANGED <<kv, geo, lw, log, live>>

\* A call of the run never returns.
Block(j) ==
    /\ d.job[j].pc = "run"
    /\ ~d.job[j].blocked
    /\ d' = [d EXCEPT !.job[j].blocked = TRUE,
                      !.since = [k \in Jobs |-> IF k = j THEN d.since[k] ELSE 0]]
    /\ UNCHANGED <<kv, geo, lw, log, live>>

NextJobs ==
    \E j \in Jobs :
       \/ StartJob(j)
       \/ Tick(j)
       \/ Receive(j)
       \/ RunStep(j)
       \/ Block(j)

\* The caller, the tickers and the goroutines go on; a call that returns does
\* return.
FairJobs ==
    \A j \in Jobs :
       /\ WF_vars(StartJob(j))
       /\ WF_vars(Tick(j))
       /\ WF_vars(Receive(j))
       /\ WF_vars(RunStep(j))

SpecJobs == InitJobs /\ [][NextJobs]_vars /\ FairJobs

(***************************************************************************)
(* Two goroutines that call UpsertVenue at the same time on one store.     *)
(***************************************************************************)
Writers == {1, 2}
NoCall == [pc |-> "idle", v |-> NoVenue, res |-> "none"]

InitWriters ==
    /\ kv = [key \in StoreKeys |-> RedisNil]
    /\ geo = [m \in MemberKeys |-> NoPos]
    /\ d = [pc |-> "writers", call |-> [i \in Writers |-> NoCall]]
    /\ lw = [w \in Workers |-> IdleBatch]
    /\ log = EmptyLog
    /\ live = NoLive

\* UpsertVenue of writer i, first step of AddLocationWithJSON: the GEOADD succeeds,
\* or it fails and UpsertVenue returns the error.
WriterGeoAdd(i) ==
    /\ d.call[i].pc = "idle"
    /\ \E v \in StoreVenues :
          \/ /\ geo' = addLocationGeoAdd(geo, upsertMember(v), v.venue_lat, v.venue_lon)
             /\ d' = [d EXCEPT !.call[i] = [pc |-> "set", v |-> v, res |-> "none"]]
          \/ /\ geo' = geo
             /\ d' = [d EXCEPT !.call[i] = [pc |-> "returned", v |-> v, res |-> "geoadd failed"]]
    /\ UNCHANGED <<kv, lw, log, live>>

\* UpsertVenue of writer i, second step: the SET succeeds or fails, and UpsertVenue
\* returns.
WriterSet(i) ==
    /\ d.call[i].pc = "set"
    /\ \/ /\ kv' = addLocationSet(kv, upsertMember(d.call[i].v), d.call[i].v)
          /\ d' = [d EXCEPT !.call[i].pc = "returned", !.call[i].res = "ok"]
       \/ /\ kv' = kv
          /\ d' = [d EXCEPT !.call[i].pc = "returned", !.call[i].res = "set failed"]
    /\ UNCHANGED <<geo, lw, log, live>>

NextWriters ==
    \E i \in Writers :
       \/ WriterGeoAdd(i)
       \/ WriterSet(i)

SpecWriters == InitWriters /\ [][NextWriters]_vars

(***************************************************************************)
(* Properties.                                                             *)
(***************************************************************************)

\* The records UpsertVenue was called with before the venue of lastProc.
KeptBefore ==
    IF log.lastProc.why = "none"
    THEN SubSeq(log.upserts, 1, Len(log.upserts) - 1)
    ELSE log.upserts
KeptIDsBefore == { KeptBefore[j].venue_id : j \in 1..Len(KeptBefore) }
KeptNamesBefore == { KeptBefore[j].venue_name : j \in 1..Len(KeptBefore) }

NoTwoKeptAlike ==
    \A a, b \in 1..Len(log.upserts) :
        a # b => /\ log.upserts[a].venue_id # log.upserts[b].venue_id
                 /\ log.upserts[a].venue_name # log.upserts[b].venue_name

\* C1 as stated: the records passed to UpsertVenue in a run hold no two with the
\* same non-empty ID or the same non-empty name, and the record kept for an ID
\* or a name is the first record of the run, in processing order, that carries it.
C1_FirstOfIdOrNameKept ==
    /\ \A a, b \in 1..Len(log.upserts) :
          a # b => /\ log.upserts[a].venue_id = "" \/ log.upserts[a].venue_id # log.upserts[b].venue_id
                   /\ log.upserts[a].venue_name = "" \/ log.upserts[a].venue_name # log.upserts[b].venue_name
    /\ ~log.notFirst

\* C1 amended: the records passed to UpsertVenue in a run hold no two with the
\* same ID or the same name, and a record is kept exactly when no record kept
\* before it has its ID or its name.
C1_KeptIffNoEarlierKeptAlike ==
    /\ NoTwoKeptAlike
    /\ "isNil" \notin DOMAIN log.lastProc =>
          ((log.lastProc.why = "none") <=>
               /\ log.lastProc.v.venue_id \notin KeptIDsBefore
               /\ log.lastProc.v.venue_name \notin KeptNamesBefore)

\* C1 witness: a record was kept although an earlier record of the run, dropped
\* for its name, carried the same ID.
C1_Witness ==
    /\ log.notFirst
    /\ Len(log.upserts) = 2
    /\ "isNil" \notin DOMAIN log.lastProc
    /\ log.lastProc.why = "none"

\* C2 as stated, for the steps whose cache call succeeded: after the step of
\* fetchAndCacheLiveForecasts for venue ID v whose fetch returned an entry, the
\* cache holds that entry for v if its status is "OK" and its busyness is
\* available, and holds no live-forecast entry for v otherwise.
C2_CacheHoldsFetchedIffFresh ==
    ("isNil" \notin DOMAIN live.lastStep /\ live.lastStep.ok) =>
        IF live.lastStep.lf.Status = "OK" /\ live.lastStep.lf.VenueLiveBusynessAvailable
        THEN kv[LiveKey(live.lastStep.vid)] = Marshal(live.lastStep.lf)
        ELSE kv[LiveKey(live.lastStep.vid)] = RedisNil

\* C3 as stated: in every state a live-forecast entry exists for a venue only if
\* the most recent live-forecast fetch for that venue returned status "OK" with
\* the busyness available.
C3_EntryOnlyIfLastFetchFresh ==
    \A id \in LiveIDs : kv[LiveKey(id)] # RedisNil => live.lastFetch[id] = "ok"

\* C3 amended: in every state, under any interleaving of the two jobs and with
\* provider and cache calls that may fail, a live-forecast entry stored for a
\* venue ID is the serialization of a fetched entry that has status "OK", has
\* the busyness available and carries that venue ID.
C3_EntryIsFreshFetchedEntry ==
    \A id \in VenueIDs :
        kv[LiveKey(id)] # RedisNil =>
            /\ IsJSON(kv[LiveKey(id)])
            /\ Unmarshal(kv[LiveKey(id)]) \in LiveForecastResponse
            /\ Unmarshal(kv[LiveKey(id)]).Status = "OK"
            /\ Unmarshal(kv[LiveKey(id)]).VenueLiveBusynessAvailable
            /\ Unmarshal(kv[LiveKey(id)]).VenueID = id

\* C3 witness: an entry is cached for venue "1" although the most recent fetch
\* for "1" returned an entry that is not to be cached.
C3_Witness ==
    /\ kv[LiveKey("1")] # RedisNil
    /\ live.lastFetch["1"] = "stale"
    /\ lw["postUpsert"].pc # "write" /\ lw["refreshAll"].pc # "write"

\* C4 as stated: in every state a member is in the geo index if and only if its
\* payload is stored under the member key.
C4_IndexIffPayload ==
    \A m \in MemberKeys : (geo[m] # NoPos) <=> (kv[m] # RedisNil)

\* C5: once UpsertVenue(v) has returned success, the payload key of v holds the
\* serialization of v, the member of v is in the geo index at v's coordinates,
\* and GetNearbyVenues returns v for every centre and radius that cover them.
C5_UpsertedVenueIsFound ==
    \A j \in 1..Len(log.upsertRes) :
        log.upsertRes[j] = "ok" =>
            LET v == log.upserts[j]
            IN /\ kv[VenueKey(v.venue_id)] = Marshal(v)
               /\ geo[VenueKey(v.venue_id)] = GeoLocation(v.venue_lat, v.venue_lon)
               /\ \A lat \in Lats, lon \in Lons, radius \in Radii :
                     Abs(v.venue_lat - lat) + Abs(v.venue_lon - lon) <= radius =>
                        \A order \in Listings(RedisGeoRadius(geo, lat, lon, radius)) :
                           LET got == GetNearbyVenues(geo, kv, lat, lon, radius, NoFailure, order)
                           IN ~got.err /\ v \in Range(got.venues)

\* C5 witness: two venues at different places have been upserted with success.
C5_Witness ==
    /\ Len(log.upsertRes) = 2
    /\ log.upsertRes[1] = "ok" /\ log.upsertRes[2] = "ok"
    /\ log.upserts[1].venue_lat # log.upserts[2].venue_lat

\* The poll/dedup loop of the run has ended and nothing has been done since.
ProcessReturned ==
    /\ d.pc \in {"live", "done"}
    /\ Len(d.handles) > 0
    /\ log.liveCalls = <<>>

\* C6: a handle is polled at most 5 times; no venue of a handle whose last poll
\* was unfinished is upserted; when the poll loop of the run has ended every
\* handle has been polled, and the run returns nil.
C6_AtMostFivePollsThenSkip ==
    /\ Len(log.polls) <= 5
    /\ "unfinished" \notin log.upsertAfter
    /\ ProcessReturned => log.polled = 1..Len(d.handles)
    /\ d.pc = "done" => d.ret = "nil"

\* C6 witness: the first handle was abandoned after 5 unfinished polls and a venue
\* of a later handle has been upserted.
C6_Witness ==
    /\ 1 \in log.abandoned
    /\ Len(log.upserts) > 0
    /\ d.h = 2

\* C7: the sleep after attempt k of a handle, for k = 1..4, lasts 15 * k seconds
\* (15, 30, 45, 60), and attempt k + 1 is made only after it.
C7_BackoffSeconds ==
    /\ \A k \in 1..Len(log.sleeps) : k <= 4 => log.sleeps[k] = <<15, 30, 45, 60>>[k]
    /\ \A k \in 2..Len(log.polls) : Len(log.sleeps) >= k - 1

\* C7 witness: a handle is at its fifth attempt, after four sleeps.
C7_Witness ==
    /\ Len(log.polls) = 5
    /\ Len(log.sleeps) >= 4

\* C8: a poll that returns an error is the last poll of its handle and no sleep
\* follows it; no venue of such a handle is upserted; the remaining handles are polled.
C8_PollErrorEndsHandle ==
    /\ \A k \in 1..(Len(log.polls) - 1) : log.polls[k] = "unfinished"
    /\ Len(log.sleeps) = Cardinality({ k \in 1..Len(log.polls) : log.polls[k] = "unfinished" })
    /\ "error" \notin log.upsertAfter
    /\ ProcessReturned => log.polled = 1..Len(d.handles)

\* C8 witness: the first handle failed at its third attempt and the run is about
\* to poll the second handle.
C8_Witness ==
    /\ log.polls = <<"unfinished", "unfinished", "error">>
    /\ log.sleeps = <<15, 30>>
    /\ d.pc = "poll" /\ d.h = 2 /\ d.i = 0

OKs(starts) == { j \in 1..Len(starts) : starts[j].ok }

\* C9: during kick-off every location is started once, in order, and the handles
\* are those of the searches that started; when no search started the run
\* returns nil without a sleep, a poll, an upsert or a live-forecast fetch.
C9_KickoffDropsFailedSeeds ==
    /\ d.pc = "kickoff" =>
          /\ Len(log.starts) = d.loc - 1
          /\ \A j \in 1..Len(log.starts) : log.starts[j].loc = j
          /\ Len(d.handles) = Cardinality(OKs(log.starts))
    /\ (d.pc # "idle" /\ d.loc > Len(defaultLocations) /\ Len(d.handles) = 0) =>
          /\ d.pc \in {"kickoff", "done"}
          /\ d.pc = "done" => d.ret = "nil"
          /\ Len(log.starts) = Len(defaultLocations)
          /\ OKs(log.starts) = {}
          /\ log.initialWait = <<>> /\ log.sleeps = <<>> /\ log.polls = <<>>
          /\ log.polled = {} /\ log.upserts = <<>> /\ log.liveCalls = <<>>
          /\ \A key \in StoreKeys : kv[key] = RedisNil
          /\ \A m \in MemberKeys : geo[m] = NoPos

\* C9 witness: every search failed and the run has returned.
C9_Witness ==
    /\ d.pc = "done"
    /\ Len(d.handles) = 0
    /\ Len(log.starts) = Len(defaultLocations)

\* C10: a venue whose ID was kept before is skipped by the ID check, whatever its
\* name; a venue whose ID is new and whose name was kept before is skipped by
\* the name check; any other venue is kept.
C10_IdCheckThenNameCheck ==
    "isNil" \notin DOMAIN log.lastProc =>
        LET v == log.lastProc.v
        IN log.lastProc.why =
              IF v.venue_id \in KeptIDsBefore THEN "id"
              ELSE IF v.venue_name \in KeptNamesBefore THEN "name"
              ELSE "none"

\* C10 witness: after {1, X} was kept, {1, Y} is skipped by the ID check.
C10_Witness ==
    /\ Len(log.upserts) = 1
    /\ log.upserts[1].venue_id = "1" /\ log.upserts[1].venue_name = "X"
    /\ "isNil" \notin DOMAIN log.lastProc
    /\ log.lastProc.v.venue_id = "1" /\ log.lastProc.v.venue_name = "Y"
    /\ log.lastProc.why = "id"

\* C11 as stated: a venue record with an empty venue_id is skipped if and only if
\* its venue_name was kept before in the run, so that two records with empty
\* IDs and different names are both upserted.
C11_EmptyIdDedupedByName ==
    ("isNil" \notin DOMAIN log.lastProc /\ log.lastProc.v.venue_id = "") =>
        ((log.lastProc.why # "none") <=> log.lastProc.v.venue_name \in KeptNamesBefore)

FilterRun == d.entry = "RefreshVenuesDataByVenuesFilter"

\* C12 as stated: for the same sequence of venue records, each having an ID or a
\* name, the filtered discovery attempts the same upserts as the dedup loop of
\* the search/poll flow and returns the same unique-ID list.
C12_FilterFlowSameAsSearchFlow ==
    (FilterRun /\ log.liveCalls = <<>> /\ log.searchFlow.allKeyed) =>
        /\ log.upserts = log.searchFlow.upserts
        /\ d.pc \in {"live", "done"} => d.ids = log.searchFlow.uniqueIDs

HasNoKey(v) == v.venue_id = "" /\ v.venue_name = ""

\* C13: the filtered discovery skips every record with neither a venue_id nor a
\* venue_name: UpsertVenue is never called with such a record, and the empty ID
\* and the empty name it carries never get into the seen-ID set, the seen-name
\* set or the unique-ID list.
C13_FilterSkipsRecordWithoutKey ==
    /\ ("isNil" \notin DOMAIN log.lastProc /\ HasNoKey(log.lastProc.v)) => log.lastProc.why = "nokey"
    /\ \A j \in 1..Len(log.upserts) : ~HasNoKey(log.upserts[j])
    /\ "isNil" \in DOMAIN d.v \/ ~HasNoKey(d.v)
    /\ "" \notin d.seenIDs
    /\ "" \notin d.seenNames
    /\ \A j \in 1..Len(d.uniqueIDs) : d.uniqueIDs[j] # ""
    /\ \A j \in 1..Len(d.ids) : d.ids[j] # ""

\* C13 witness: after a record was upserted, a record without ID and name is skipped.
C13_Witness ==
    /\ FilterRun
    /\ "isNil" \notin DOMAIN log.lastProc
    /\ HasNoKey(log.lastProc.v)
    /\ log.lastProc.why = "nokey"
    /\ log.upsertRes = <<"ok">>
    /\ Len(d.uniqueIDs) = 1 \/ Len(d.ids) = 1

\* The run asks for the post-upsert live-forecast fetch.
LiveFetchEnabled ==
    \/ d.entry = "RefreshVenuesData"
    \/ FilterRun /\ d.fetchAndCacheLive

\* C14: with the post-upsert fetch enabled, GetLiveForecast is called once for
\* every ID of the unique-ID list, in order, each fetched entry being written or
\* deleted before the next call, and at the return every ID has been called;
\* with the fetch disabled (RefreshVenueCatalog, fetchAndCacheLive = false) the
\* run calls GetLiveForecast for no ID and leaves every live-forecast key as it was.
C14_LiveFetchOncePerUniqueID ==
    /\ (d.pc # "idle" /\ LiveFetchEnabled) =>
          /\ d.pc = "live" =>
                /\ lw["postUpsert"].pc \in {"fetch", "write"}
                /\ lw["postUpsert"].ids = d.ids
                /\ Len(log.liveCalls) = IF lw["postUpsert"].pc = "write"
                                        THEN lw["postUpsert"].lv ELSE lw["postUpsert"].lv - 1
                /\ log.liveCalls = SubSeq(d.ids, 1, Len(log.liveCalls))
          /\ (d.pc = "done" /\ d.ret = "nil") => log.liveCalls = d.ids
          /\ d.pc \notin {"live", "done"} => log.liveCalls = <<>>
    /\ (d.pc # "idle" /\ ~LiveFetchEnabled) =>
          /\ log.liveCalls = <<>>
          /\ d.pc # "live"
          /\ lw["postUpsert"].pc = "idle"
          /\ \A key \in LiveKeys : kv[key] = RedisNil

\* C14 witness: a filtered run with the fetch enabled has returned after one
\* GetLiveForecast call for each of its two unique IDs, an entry being cached.
C14_Witness ==
    /\ FilterRun /\ d.fetchAndCacheLive
    /\ d.pc = "done"
    /\ Len(d.ids) = 2
    /\ log.liveCalls = d.ids
    /\ \E key \in LiveKeys : kv[key] # RedisNil

\* The post-upsert batch after the call for the ID at position j of the list.
BatchGoesOnAfter(j) ==
    IF j < Len(d.ids)
    THEN d.pc = "live" /\ lw["postUpsert"].pc = "fetch" /\ lw["postUpsert"].lv = j + 1
    ELSE d.pc = "done" /\ d.ret = "nil" /\ lw["postUpsert"].pc = "done"

\* C15: after a GetLiveForecast error for one ID the batch goes on with the next
\* ID of its list, and when the batch has ended GetLiveForecast has been called
\* once for every ID of the list, whatever the calls that failed.
C15_FetchErrorDoesNotAbortBatch ==
    /\ log.lastLive = "fetch error" => BatchGoesOnAfter(Len(log.liveCalls))
    /\ \A e \in log.liveErrs : e[1] <= Len(log.liveCalls)
    /\ (LiveFetchEnabled /\ d.pc = "done" /\ d.ret = "nil") => log.liveCalls = d.ids

\* C15 witness: the call for the first ID failed, the call for the second ID was
\* made and its entry written, and the batch has ended.
C15_Witness ==
    /\ d.pc = "done"
    /\ <<1, "fetch">> \in log.liveErrs
    /\ log.lastLive = "written"
    /\ Len(log.liveCalls) = 2
    /\ log.liveCalls = d.ids

\* The dedup loop after the record of lastProc.
LoopGoesOn ==
    IF log.lastProc.k < log.lastProc.n
    THEN d.pc \in {"dedup", "fdedup"} /\ d.k = log.lastProc.k + 1
    ELSE IF log.lastProc.h < Len(d.handles)
         THEN d.pc = "poll" /\ d.h = log.lastProc.h + 1 /\ d.i = 0
         ELSE d.pc \in {"live", "done"}

\* C16: after an UpsertVenue, SetLiveForecast or DeleteLiveForecast that failed,
\* the loop goes on with the next item as after one that succeeded, so every
\* item is processed, and the run returns no error of the cache: an error is
\* returned only for a failed VenueFilter query, before any upsert.
C16_CacheErrorSkippedInLoops ==
    /\ "isNil" \notin DOMAIN log.lastProc =>
          IF d.pc \in {"upsert_set", "fupsert_set"}
          THEN d.k = log.lastProc.k /\ Len(log.upsertRes) = Len(log.upserts) - 1
          ELSE LoopGoesOn /\ Len(log.upsertRes) = Len(log.upserts)
    /\ log.lastLive \in {"written", "write error"} => BatchGoesOnAfter(Len(log.liveCalls))
    /\ d.pc = "done" =>
          \/ d.ret = "nil"
          \/ d.ret = "error" /\ FilterRun /\ ~log.upsertErr /\ log.liveErrs = {} /\ log.upserts = <<>>

\* C16 witness: an upsert of the run failed, the SetLiveForecast or
\* DeleteLiveForecast of the first ID failed, the second ID was fetched and
\* written, and the run returned nil.
C16_Witness ==
    /\ d.pc = "done" /\ d.ret = "nil"
    /\ log.upsertErr
    /\ <<1, "write">> \in log.liveErrs
    /\ log.lastLive = "written"
    /\ Len(log.liveCalls) = 2

\* The venues GetNearbyVenues can return for a centre and a radius when the store
\* does not fail, one list for each order the radius query can give.
ReadsOf(lat, lon, radius) ==
    { GetNearbyVenues(geo, kv, lat, lon, radius, NoFailure, order) :
         order \in Listings(RedisGeoRadius(geo, lat, lon, radius)) }

\* C17: UpsertVenue is idempotent and overwriting. When UpsertVenue(v) has returned
\* success, the member of v's ID holds v's position and v's payload whatever it held
\* before, every other member and key is as it was, no member or key has been
\* added besides that one, a read around v's position lists v's ID once; and when
\* the store already held v with the same data, the store is what it was.
C17_UpsertIdempotentAndOverwriting ==
    (log.lastUpsert # NoUpsert /\ log.lastUpsert.res = "ok") =>
        LET v == log.lastUpsert.v
            m == VenueKey(v.venue_id)
            before == log.lastUpsert
        IN /\ geo = [before.geo EXCEPT ![m] = GeoLocation(v.venue_lat, v.venue_lon)]
           /\ kv = [before.kv EXCEPT ![m] = Marshal(v)]
           /\ { x \in DOMAIN geo : geo[x] # NoPos } = { x \in DOMAIN geo : before.geo[x] # NoPos } \cup {m}
           /\ { x \in DOMAIN kv : kv[x] # RedisNil } = { x \in DOMAIN kv : before.kv[x] # RedisNil } \cup {m}
           /\ (before.geo[m] = GeoLocation(v.venue_lat, v.venue_lon) /\ before.kv[m] = Marshal(v))
                 => (geo = before.geo /\ kv = before.kv)
           /\ \A got \in ReadsOf(v.venue_lat, v.venue_lon, 0) :
                 got.err \/
                 (/\ v \in Range(got.venues)
                  /\ Cardinality({ j \in 1..Len(got.venues) : got.venues[j].venue_id = v.venue_id }) = 1)

\* C17 witness: a venue stored at one place under an ID has been upserted with
\* success at the other place under the same ID.
C17_Witness ==
    /\ log.lastUpsert # NoUpsert
    /\ log.lastUpsert.res = "ok"
    /\ log.lastUpsert.kv[VenueKey(log.lastUpsert.v.venue_id)] \in
          { Marshal(w) : w \in StoreVenues \ {log.lastUpsert.v} }
    /\ log.lastUpsert.geo[VenueKey(log.lastUpsert.v.venue_id)] \notin
          { NoPos, GeoLocation(log.lastUpsert.v.venue_lat, log.lastUpsert.v.venue_lon) }

\* The payloads the last GetNearbyVenues got from the store: those of the members
\* the radius query listed whose GET gave a value.
PayloadsRead ==
    { kv[m] : m \in { x \in Range(log.lastRead.order) :
                         x \notin log.lastRead.fail.gets /\ kv[x] # RedisNil } }

\* C18: GetNearbyVenues fails as a whole when a payload it read within the radius
\* cannot be deserialized: it returns an error and no venue, wherever the payload
\* stands among the ones read.
C18_UndecodablePayloadFailsRead ==
    (/\ log.lastRead # NoRead
     /\ ~log.lastRead.fail.radius
     /\ \E s \in PayloadsRead : ~IsJSON(s))
        => (log.lastRead.ret.err /\ log.lastRead.ret.venues = <<>>)

\* C18 witness: two members were read, the first held a venue and the second a
\* payload that is not a venue's JSON, and the call failed.
C18_Witness ==
    /\ log.lastRead # NoRead
    /\ log.lastRead.fail = NoFailure
    /\ Len(log.lastRead.order) = 2
    /\ IsJSON(kv[log.lastRead.order[1]])
    /\ kv[log.lastRead.order[2]] = NotJSON
    /\ log.lastRead.ret.err

\* C19: an error of the store while GetNearbyVenues reads, on the radius query or
\* on the GET of a member within the radius, is the error of GetNearbyVenues.
C19_StoreErrorFailsRead ==
    (/\ log.lastRead # NoRead
     /\ \/ log.lastRead.fail.radius
        \/ \E m \in Range(log.lastRead.order) : m \in log.lastRead.fail.gets)
        => log.lastRead.ret.err

\* The venues stored with success, each as its last successful UpsertVenue gave it.
KnownVenues == { log.known[id] : id \in { x \in DOMAIN log.known : log.known[x] # NoVenue } }

\* C20: GetNearbyVenues(lat, lon, r) on a store that does not fail returns exactly
\* the venues upserted at a distance of at most r from (lat, lon); a venue upserted
\* at the query point itself is returned for r = 0 as for any radius.
C20_ExactlyVenuesWithinRadius ==
    (/\ log.lastRead # NoRead
     /\ log.lastRead.fail = NoFailure
     /\ ~log.lastRead.ret.err)
        => Range(log.lastRead.ret.venues) =
              { v \in KnownVenues :
                   Distance(GeoLocation(v.venue_lat, v.venue_lon),
                            log.lastRead.lat, log.lastRead.lon) <= log.lastRead.radius }

\* The failure of the store the last forecast read met, if the client can fail.
StoreFailed == d.client = "GeoRedisClient" /\ log.lastGet.failure # "none"

\* C21: GetLiveForecast for a venue that has no cached live entry, never set or
\* deleted, gives the result absent (no entry, no error).
C21_MissingLiveEntryIsAbsent ==
    (/\ log.lastGet # NoGet
     /\ log.lastGet.op = "GetLiveForecast"
     /\ ~StoreFailed
     /\ kv[log.lastGet.key] = RedisNil)
        => (log.lastGet.ret.err = NilErr /\ log.lastGet.ret.f = NoLF)

\* C22: GetWeekRawForecast for a venue and day without a cached entry gives absent
\* with no error on either client of the store, and a failure of the store other
\* than a missing key is returned as an error.
C22_WeekMissIsAbsentFailureIsError ==
    (log.lastGet # NoGet /\ log.lastGet.op = "GetWeekRawForecast") =>
        /\ (~StoreFailed /\ kv[log.lastGet.key] = RedisNil)
              => (log.lastGet.ret.err = NilErr /\ log.lastGet.ret.d = NoDay)
        /\ StoreFailed => log.lastGet.ret.err # NilErr

\* The place of a venue in the input of mergeLive, and its cached live busyness.
InputPlace(v) == CHOOSE i \in 1..Len(d.venues) : d.venues[i] = v
HasLive(v) == kv[LiveKey(v.venue_id)] # RedisNil
LiveBusynessOf(v) == Unmarshal(kv[LiveKey(v.venue_id)]).VenueLiveBusyness

\* C23: the output of mergeLive holds the input venues, each with its live entry;
\* every venue with a live entry stands before every venue without one, venues
\* with live entries stand in descending live busyness and ties in input order,
\* venues without live entries stand in input order; and the input
\* [A (no live), B (30), C (80), D (no live)] gives [C, B, A, D].
C23_MergeOrder ==
    d.pc = "merged" =>
        /\ Len(d.out) = Len(d.venues)
        /\ { d.out[i].Venue : i \in 1..Len(d.out) } = Range(d.venues)
        /\ \A i \in 1..Len(d.out) :
              d.out[i].Live = IF HasLive(d.out[i].Venue)
                              THEN Unmarshal(kv[LiveKey(d.out[i].Venue.venue_id)]) ELSE NoLF
        /\ \A i, j \in 1..Len(d.out) :
              i < j =>
                 LET x == d.out[i].Venue
                     y == d.out[j].Venue
                 IN /\ HasLive(y) => HasLive(x)
                    /\ (HasLive(x) /\ HasLive(y)) =>
                          \/ LiveBusynessOf(x) > LiveBusynessOf(y)
                          \/ LiveBusynessOf(x) = LiveBusynessOf(y) /\ InputPlace(x) < InputPlace(y)
                    /\ (~HasLive(x) /\ ~HasLive(y)) => InputPlace(x) < InputPlace(y)
        /\ (/\ d.venues = <<MergeVenue("A"), MergeVenue("B"), MergeVenue("C"), MergeVenue("D")>>
            /\ ~HasLive(MergeVenue("A")) /\ ~HasLive(MergeVenue("D"))
            /\ HasLive(MergeVenue("B")) /\ HasLive(MergeVenue("C"))
            /\ LiveBusynessOf(MergeVenue("B")) = 30 /\ LiveBusynessOf(MergeVenue("C")) = 80)
              => [i \in 1..4 |-> d.out[i].Venue.venue_id] = <<"C", "B", "A", "D">>

\* C23 witness: mergeLive has returned [C, B, A, D] for the input [A, B, C, D]
\* with live busyness 30 for B and 80 for C and no live entry for A and D.
C23_Witness ==
    /\ d.pc = "merged"
    /\ d.venues = <<MergeVenue("A"), MergeVenue("B"), MergeVenue("C"), MergeVenue("D")>>
    /\ kv[LiveKey("A")] = RedisNil /\ kv[LiveKey("D")] = RedisNil
    /\ kv[LiveKey("B")] = Marshal(MergeLiveEntry("B", 30))
    /\ kv[LiveKey("C")] = Marshal(MergeLiveEntry("C", 80))
    /\ [i \in 1..4 |-> d.out[i].Venue.venue_id] = <<"C", "B", "A", "D">>

\* C24: the endpoint answers a request whose arguments parse with 500 exactly when
\* GetNearbyVenues failed; otherwise it answers 200 with every venue found, a
\* venue whose live forecast is missing or could not be read carrying no live
\* entry. No response has another 5xx status.
C24_ServerErrorOnlyWhenNearbyFails ==
    log.lastResponse # NoResponse =>
        LET r == log.lastResponse
        IN /\ r.status \in {200, 400, 500}
           /\ r.status = 500 <=> (r.argsOK /\ r.nearby.err)
           /\ (r.argsOK /\ ~r.nearby.err) =>
                 /\ r.status = 200
                 /\ Len(r.body) = Len(r.nearby.venues)
                 /\ \A v \in Range(r.nearby.venues) :
                       \E i \in 1..Len(r.body) : r.body[i].Venue = v

\* C24 witness: a request found two venues, the live forecast of one or both
\* could not be got, and the answer is 200 with both venues, one without live entry.
C24_Witness ==
    /\ log.lastResponse # NoResponse
    /\ log.lastResponse.argsOK
    /\ log.lastResponse.liveErr
    /\ log.lastResponse.status = 200
    /\ Len(log.lastResponse.body) = 2
    /\ \E i \in 1..2 : log.lastResponse.body[i].Live = NoLF

\* C25: every Start call returns, so every job gets started; and each job, unless a
\* call of its own run never returns, begins a run again and again, whatever the
\* other job does, a run of the other that is stuck for ever included.
C25_JobsRunIndependently ==
    /\ <>(d.started = Jobs)
    /\ \A j \in Jobs :
          \/ <>[](d.job[j].blocked)
          \/ []<>(d.job[j].pc = "run" /\ d.job[j].step = 1)

\* C25 witness: a run of one job is stuck, and the other job has begun two runs
\* since.
C25_Witness ==
    \E j \in Jobs : \E k \in Jobs \ {j} :
       /\ d.job[j].blocked
       /\ d.since[k] = MaxRunsCounted
       /\ d.job[k].pc = "run"

\* The venue an upsert is writing in a step, if any.
UpsertIn(before, after) == { v \in {before.v, after.v} : v # NoVenue }

\* C26: no step of a discovery run, a filtered-discovery run or the live-forecast
\* fetches that follow removes a member from the geo index or a venue's payload,
\* and a member's position or payload changes only to the data of the venue an
\* upsert of that ID is writing.
C26_VenuesNeverRemoved ==
    [][\A m \in MemberKeys :
          /\ geo[m] # NoPos => geo'[m] # NoPos
          /\ kv[m] # RedisNil => kv'[m] # RedisNil
          /\ geo'[m] # geo[m] =>
                \E v \in UpsertIn(d, d') :
                   m = upsertMember(v) /\ geo'[m] = GeoLocation(v.venue_lat, v.venue_lon)
          /\ kv'[m] # kv[m] =>
                \E v \in UpsertIn(d, d') : m = upsertMember(v) /\ kv'[m] = Marshal(v)]_vars

\* C26 witness: a DeleteLiveForecast has succeeded for a venue (the last write of
\* the batch succeeded and left no live key), and the venue is in the index with
\* its payload.
C26_Witness ==
    /\ log.lastLive = "written"
    /\ \A key \in LiveKeys : kv[key] = RedisNil
    /\ Len(log.liveCalls) > 0
    /\ kv[VenueKey(log.liveCalls[Len(log.liveCalls)])] # RedisNil
    /\ geo[VenueKey(log.liveCalls[Len(log.liveCalls)])] # NoPos

\* C27: a backoff sleep happens only between two poll attempts of one handle: a
\* handle causes at most 4 sleeps, and none after its fifth poll.
C27_NoSleepAfterLastPoll ==
    /\ Len(log.sleeps) <= maxRetries - 1
    /\ Len(log.sleeps) <= Len(log.polls)
    /\ Len(log.polls) = maxRetries => Len(log.sleeps) < maxRetries

\* The IDs of the venues an UpsertVenue of the run has stored with success.
UpsertedIDs ==
    { log.upserts[j].venue_id : j \in { x \in 1..Len(log.upsertRes) : log.upsertRes[x] = "ok" } }

\* C28: every ID of the unique-ID list of a run, which is the list the live
\* forecasts are fetched for, is the ID of a venue whose UpsertVenue succeeded in
\* the run (the venue whose UpsertVenue is under way aside).
C28_UniqueIDsWereUpserted ==
    d.pc \in {"poll", "dedup"} =>
        \A k \in 1..Len(d.uniqueIDs) : d.uniqueIDs[k] \in UpsertedIDs

\* The venue IDs fetchAndCacheLiveForecasts is writing the cache for in a step.
RequestedIDs == { lw[w].ids[lw[w].lv] : w \in { x \in Workers : lw[x].pc = "write" } }

\* C29: fetchAndCacheLiveForecasts writes the live-forecast key of the venue ID it
\* requested and of no other: a step changes the live key of an ID only when that
\* ID is the requested one, whatever venue ID the fetched entry carries.
C29_LiveEntryUnderRequestedID ==
    [][\A id \in VenueIDs :
          kv'[LiveKey(id)] # kv[LiveKey(id)] => id \in RequestedIDs]_vars

\* C30: when two upserts of one venue ID with different data have run at the same
\* time and both have returned success, the position in the geo index and the
\* payload stored are those of one and the same of the two.
C30_ConcurrentUpsertsLeaveOneWriter ==
    (/\ \A i \in Writers : d.call[i].pc = "returned" /\ d.call[i].res = "ok"
     /\ d.call[1].v.venue_id = d.call[2].v.venue_id
     /\ d.call[1].v # d.call[2].v)
        => \E i \in Writers :
              /\ geo[upsertMember(d.call[i].v)]
                    = GeoLocation(d.call[i].v.venue_lat, d.call[i].v.venue_lon)
              /\ kv[upsertMember(d.call[i].v)] = Marshal(d.call[i].v)

\* C31: two runs of one job never execute at the same time. A run of a job begins
\* only when no run of that job is executing, so after the one before has
\* returned; and a tick that arrives while a run executes starts no run.
C31_RunsOfOneJobNeverOverlap ==
    [][\A j \in Jobs :
          /\ d.running[j] <= 1
          /\ d'.running[j] > d.running[j] => d.running[j] = 0
          /\ (~d.tick[j] /\ d'.tick[j] /\ d.job[j].pc = "run") =>
                d'.running[j] = d.running[j] /\ d'.job[j] = d.job[j]]_vars

\* C31 witness: the second run of a job executes, and a tick that arrived during
\* the run waits in the channel of the ticker.
C31_Witness ==
    \E j \in Jobs :
       /\ d.job[j].pc = "run"
       /\ d.running[j] = 1
       /\ d.since[j] = MaxRunsCounted
       /\ d.tick[j]

\* The handles the poll loop has left: finished, failed or abandoned.
HandlesLeft == log.finished \cup log.failed \cup log.abandoned

\* C32: the stages of a run follow one another. A startSearch call is made only
\* before the first pollProgress, upsert and getLiveForecast of the run; a
\* pollProgress call is made for the handles in the order of the list, every
\* handle before the polled one having finished, failed or been abandoned; and no
\* upsert is made once a getLiveForecast call has been made.
C32_StagesAreSequential ==
    [][/\ Len(log'.starts) > Len(log.starts) =>
             log.polled = {} /\ log.upserts = <<>> /\ log.liveCalls = <<>>
       /\ (d.pc = "poll" /\ log' # log) =>
             /\ log'.polled = 1..d.h
             /\ 1..(d.h - 1) \subseteq HandlesLeft
             /\ d.h \notin HandlesLeft
             /\ log.liveCalls = <<>>
       /\ (Len(log'.upserts) > Len(log.upserts) \/ geo' # geo
              \/ \E m \in MemberKeys : kv'[m] # kv[m]) =>
             log.liveCalls = <<>> /\ log'.liveCalls = <<>>
       /\ Len(log'.liveCalls) > Len(log.liveCalls) => d.v = NoVenue /\ d.pc = "live"]_vars

\* C32 witness: the second handle has been polled and its job was finished, after
\* the first handle was abandoned at its fifth poll, and a venue of the second has
\* been upserted.
C32_Witness ==
    /\ log.polled = {1, 2}
    /\ 1 \in log.abandoned
    /\ 2 \in log.finished
    /\ Len(log.upsertRes) >= 1

\* C33: the initial wait is made when the kick-off has made all its calls and no
\* poll has been made: it is one sleep of one polling interval when the flag of
\* the caller is set and there is a handle, and no sleep otherwise; no other step
\* of the run makes an initial wait.
C33_InitialWaitOnceIffFlagAndHandle ==
    [][/\ (d.pc = "kickoff" /\ d'.pc # "kickoff") =>
             /\ Len(log.starts) = Len(defaultLocations)
             /\ log.polled = {}
             /\ log.initialWait = <<>>
             /\ log'.initialWait =
                   IF d.waitBeforePolling /\ Len(d.handles) > 0
                   THEN <<BEST_TIME_SEARCH_POLLING_WAIT_SECONDS * 1>>
                   ELSE <<>>
       /\ (d.pc # "kickoff" \/ d'.pc = "kickoff") =>
             Len(log'.initialWait) <= Len(log.initialWait)]_vars

\* C33 witness: the run has slept the initial wait and is about to make its first
\* poll, one of the searches having failed to start.
C33_Witness ==
    /\ d.pc = "poll"
    /\ log.polled = {}
    /\ log.initialWait = <<BEST_TIME_SEARCH_POLLING_WAIT_SECONDS>>
    /\ Len(d.handles) = 1
    /\ Len(log.starts) = Len(defaultLocations)

\* The calls of a run stay within their bounds: one startSearch per seed, in the
\* order of the seeds; at most 5 polls and 5 sleeps for the handle being polled;
\* one upsert attempt per accepted venue; one getLiveForecast per unique ID, in
\* the order of the list.
CallsWithinBounds ==
    /\ Len(log.starts) <= Len(defaultLocations)
    /\ \A n \in 1..Len(log.starts) : log.starts[n].loc = n
    /\ Len(log.polls) <= maxRetries
    /\ Len(log.sleeps) <= maxRetries
    /\ Len(log.upserts) <= Len(d.uniqueIDs) + Len(d.ids)
    /\ Len(log.upsertRes) <= Len(log.upserts)
    /\ Len(log.liveCalls) <= Len(d.ids)
    /\ \A n \in 1..Len(log.liveCalls) : log.liveCalls[n] = d.ids[n]

\* C34: when every call returns, a run that has started returns, whatever the
\* provider and the store answer, and its calls stay within their bounds.
C34_RunTerminatesWithinBounds ==
    /\ (d.pc # "idle") ~> (d.pc = "done" /\ d.ret = "nil")
    /\ []CallsWithinBounds

\* C34 witness: a run has returned after a getLiveForecast for each of its two
\* unique IDs, the last of which failed.
C34_Witness ==
    /\ d.pc = "done"
    /\ d.entry = "RefreshVenuesData"
    /\ Len(d.ids) = 2
    /\ Len(log.liveCalls) = 2
    /\ log.lastLive = "fetch error"

\* C35: a step in which GetLiveForecast fails for an ID changes no key of the
\* cache: the live entry of that ID, if there is one, stays as it is, and so does
\* every other key and the geo index.
C35_FetchErrorChangesNoKey ==
    [][\A w \in Workers :
          (lw[w].pc = "fetch" /\ lw'[w] # lw[w] /\ lw'[w].pc # "write") =>
             /\ live'.lastFetch[lw[w].ids[lw[w].lv]] = "error"
             /\ kv'[LiveKey(lw[w].ids[lw[w].lv])] = kv[LiveKey(lw[w].ids[lw[w].lv])]
             /\ kv' = kv
             /\ geo' = geo]_vars

\* C35 witness: the last fetch of an ID failed, and the live entry cached for the
\* ID before is in the cache.
C35_Witness ==
    \E id \in LiveIDs :
       /\ live.lastFetch[id] = "error"
       /\ live.lastStep = NoStep
       /\ kv[LiveKey(id)] # RedisNil

\* C36: a step of the search-based dedup that skips a venue leaves the seen-ID
\* set, the seen-name set and the unique-ID list as they were (the list being
\* what processJobHandles returns when the venue was the last one) and changes
\* nothing in the cache; so the IDs seen are those of the accepted venues only,
\* and a venue whose ID and name are not among those of the accepted venues is
\* accepted, an earlier skipped venue with that ID notwithstanding.
C36_SkipLeavesDedupStateAndCache ==
    /\ [][(d.pc = "dedup" /\ log' # log) =>
             /\ log'.lastProc.why # "none" =>
                   /\ kv' = kv /\ geo' = geo
                   /\ d'.pc \in {"dedup", "poll"} =>
                         /\ d'.seenIDs = d.seenIDs
                         /\ d'.seenNames = d.seenNames
                         /\ d'.uniqueIDs = d.uniqueIDs
                   /\ d'.pc \in {"live", "done"} => d'.ids = d.uniqueIDs
             /\ (/\ log'.lastProc.v.venue_id \notin Range(d.uniqueIDs)
                 /\ \A n \in 1..Len(log.upserts) :
                        log.upserts[n].venue_name # log'.lastProc.v.venue_name)
                   => log'.lastProc.why = "none"]_vars
    /\ [](d.pc \in {"dedup", "poll", "upsert_set"} => d.seenIDs = Range(d.uniqueIDs))

\* C36 witness: a venue has been accepted whose ID an earlier venue of the run
\* carried, that earlier venue having been skipped for its name.
C36_Witness ==
    /\ log.lastProc # NoProc
    /\ log.lastProc.why = "none"
    /\ log.lastProc.v.venue_id = "2"
    /\ Len(log.upserts) = 2
    /\ log.upserts[1].venue_id = "1"
    /\ log.upserts[2] = log.lastProc.v
    /\ log.upserts[1].venue_name # log.upserts[2].venue_name
    /\ log.notFirst

\* C37: a run of RefreshCachedLiveForecasts leaves live entries for venue IDs
\* that had one before the run only; and a run whose listing failed has made no
\* provider call and no cache write.
C37_CachedRefreshAddsNoVenue ==
    /\ ListCachedLiveForecastVenueIDs(kv) \subseteq ListCachedLiveForecastVenueIDs(log.storeBefore)
    /\ lw["refreshCached"].ret = "error" => kv = log.storeBefore /\ log.liveCalls = <<>>

\* Nothing has been written by the run: no UpsertVenue call, no member in the
\* index, no payload and no live entry in the store, no getLiveForecast call.
NothingWritten ==
    /\ log.upserts = <<>>
    /\ log.liveCalls = <<>>
    /\ \A m \in MemberKeys : geo[m] = NoPos
    /\ \A key \in StoreKeys : kv[key] = RedisNil
    /\ lw["postUpsert"] = IdleBatch

\* C38: in a filtered-discovery run, once VenueFilter has returned an error the
\* run has returned that error, and once it has returned a response whose status
\* is not OK the run has returned no error and no IDs; in both cases nothing has
\* been upserted and no live entry has been written or deleted.
C38_FilterErrorOrNonOKWritesNothing ==
    d.entry = "RefreshVenuesDataByVenuesFilter" =>
       /\ d.err =>
             d.pc = "done" /\ d.ret = "error" /\ d.ids = <<>> /\ NothingWritten
       /\ ("Status" \in DOMAIN d.resp /\ d.resp.Status # "OK") =>
             d.pc = "done" /\ d.ret = "nil" /\ d.ids = <<>> /\ NothingWritten

\* C38 witness: a run asked to fetch the live forecasts has returned after a
\* response with a status other than OK that carried two records.
C38_Witness ==
    /\ d.entry = "RefreshVenuesDataByVenuesFilter"
    /\ d.pc = "done"
    /\ d.fetchAndCacheLive
    /\ "Status" \in DOMAIN d.resp
    /\ d.resp.Status # "OK"
    /\ d.resp.VenuesN = 2

\* C39: the output of the merge step of the handler holds every venue it was
\* given exactly once, a venue without a live entry with no live data.
C39_MergeKeepsEveryVenueOnce ==
    d.pc \in {"merged", "mergedSkipping"} =>
        /\ Len(d.out) = Len(d.venues)
        /\ \A n \in 1..Len(d.venues) :
              Cardinality({ i \in 1..Len(d.out) : d.out[i].Venue = d.venues[n] }) = 1
        /\ \A i \in 1..Len(d.out) : ~HasLive(d.out[i].Venue) => d.out[i].Live = NoLF

====
